---- MODULE Spec2Model ----
(***************************************************************************)
(* A state-machine model of the goal-tracker backend (FastAPI route        *)
(* handlers over Supabase tables).  Tables are the state; every route      *)
(* handler is an action (or, where requests may overlap, one action per    *)
(* database call of the handler).                                          *)
(***************************************************************************)
EXTENDS Integers, Sequences, FiniteSets, TLC

VARIABLES
    now,               \* datetime.now(timezone.utc), as a tick counter
    next_id,           \* the serial id sequences of the tables
    teams,             \* table teams: id -> row
    team_members,      \* table team_members: set of rows
    team_invitations,  \* table team_invitations: id -> row
    team_statuses,     \* table team_statuses: id -> row
    notifications,     \* table notifications: set of rows
    goals,             \* table goals: id -> row
    categories,        \* table categories: id -> row
    user_statuses,     \* table user_statuses: id -> row
    goal_teams,        \* table goal_teams: set of <<goal_id, team_id>>
    goal_categories,   \* table goal_categories: set of <<goal_id, category_id>>
    goal_files,        \* table goal_files: id -> row
    storage,           \* bucket goal-files: set of storage keys
    req,               \* requests in flight: slot -> handler position and locals
    served,            \* requests answered so far (counted where a run is bounded)
    last               \* the response of the step just taken (NoResp if none)

teamVars == <<teams, team_members, team_invitations, team_statuses, notifications>>
goalVars == <<goals, categories, user_statuses, goal_teams, goal_categories>>
fileVars == <<goal_files, storage>>
vars == <<now, next_id, teamVars, goalVars, fileVars, req, served, last>>

(***************************************************************************)
(* Bounds of the model.                                                    *)
(***************************************************************************)
MaxTime == 2          \* the clock runs 0..MaxTime
InviteWindow == 1     \* expires_at = created_at + InviteWindow (table default)
MaxInvitations == 1   \* invitations ever created
MaxInFlight == 2      \* requests that may overlap
MaxTeams == 2         \* team ids a request may name
MaxMemberId == 4      \* team_members rows ever inserted
MaxStatuses == 2      \* team_statuses rows ever inserted
MaxRequests == 2      \* requests of a bounded run
MaxGoals == 2         \* goal ids a request may name
MaxCategories == 2    \* category ids a request may name
MaxFiles == 2         \* goal_files rows ever inserted
MaxCreatedTeams == 4  \* teams ever created by create_team

Users == {"alice", "bob", "carol"}
Reqs == 1..MaxInFlight

(***************************************************************************)
(* Email addresses are sequences of character codes, so that str.lower()   *)
(* is computed and not assumed.  "Al" = <<65,108>>, "al" = <<97,108>>.     *)
(***************************************************************************)
EmailOf(u) ==
    CASE u = "alice" -> <<65, 108>>
      [] u = "bob"   -> <<98, 111>>
      [] OTHER       -> <<99, 97>>

InviteEmails == {<<97, 108>>, <<98, 111>>}

lower(s) == [k \in DOMAIN s |-> IF s[k] >= 65 /\ s[k] <= 90 THEN s[k] + 32 ELSE s[k]]

\* enum values
OWNER == "owner"
MEMBER == "member"
PENDING == "pending"
ACCEPTED == "accepted"
DECLINED == "declined"
EXPIRED == "expired"

NoResp == [op |-> "none"]
IdleReq == [op |-> "none", user |-> "none", inv |-> 0, pc |-> "idle",
            pre_expired |-> FALSE, pre_member |-> FALSE]

(***************************************************************************)
(* Table helpers.                                                          *)
(***************************************************************************)
MemberRows(t, u) == {m \in team_members : m.team_id = t /\ m.user_id = u}
TeamRows(t) == {m \in team_members : m.team_id = t}

\* Team.get_by_id: the team, only if the user has a membership row
\* (mutation: the membership test left out)
Team_get_by_id_open(t, u) == IF t \in DOMAIN teams THEN {t} ELSE {}

\* Team.get_by_id: "First check if user is a member", then select the team
Team_get_by_id(t, u) ==
    IF MemberRows(t, u) = {} THEN {}
    ELSE IF t \in DOMAIN teams THEN {t} ELSE {}

\* (mutation: every member passes for an owner)
is_user_owner_any(t, u) == TRUE

\* Team.is_user_owner
is_user_owner(t, u) == \E m \in MemberRows(t, u) : m.role = OWNER

\* (mutation: the table without its unique_team_membership constraint)
TeamMemberCreate_save_unchecked(t, u) ==
    IF t \notin DOMAIN teams THEN "foreign_key" ELSE "ok"

\* Outcome of TeamMemberCreate.save under the table's constraints
TeamMemberCreate_save(t, u) ==
    IF t \notin DOMAIN teams THEN "foreign_key"
    ELSE IF MemberRows(t, u) # {} THEN "unique_team_membership"
    ELSE "ok"

NewMember(t, u, role, by) ==
    [id |-> next_id.member, team_id |-> t, user_id |-> u, role |-> role, invited_by |-> by]

\* (mutation: the expiry test left out)
IsExpired_never(inv) == FALSE

\* the expiry test of accept_invitation and join_via_invite_code
IsExpired(inv) == inv.expires_at < now

\* TeamInvitation.accept / TeamInvitation.decline: update ... where id = self.id
SetStatus(i, s) ==
    IF i \in DOMAIN team_invitations
    THEN [team_invitations EXCEPT ![i].status = s]
    ELSE team_invitations

\* (mutation: accept() forgets to write the status)
TeamInvitation_accept_noop(i) == team_invitations

TeamInvitation_accept(i) == SetStatus(i, ACCEPTED)

TeamInvitation_decline(i) == SetStatus(i, DECLINED)


(***************************************************************************)
(* Responses.  Every handler step sets last: code 0 while the handler is   *)
(* still running, the HTTP status once it answers.  The pre_* fields       *)
(* record what held in the tables when the handler was called.             *)
(***************************************************************************)
PrePending(i) == i \in DOMAIN team_invitations /\ team_invitations[i].status = PENDING

PreExpired(i) == i \in DOMAIN team_invitations /\ team_invitations[i].expires_at < now

PreMember(i, u) ==
    i \in DOMAIN team_invitations /\ MemberRows(team_invitations[i].team_id, u) # {}

InvResp(op, u, i, code, pp, pe, pm) ==
    [op |-> op, user |-> u, inv |-> i, code |-> code,
     pre_pending |-> pp, pre_expired |-> pe, pre_member |-> pm]

\* the handler of slot r answers with `code` and its slot is free again
Answer(r, code) ==
    /\ last' = InvResp(req[r].op, req[r].user, req[r].inv, code,
                       TRUE, req[r].pre_expired, req[r].pre_member)
    /\ req' = [req EXCEPT ![r] = IdleReq]

\* the handler of slot r goes on to its next database call
Goto(r, pc) ==
    /\ last' = InvResp(req[r].op, req[r].user, req[r].inv, 0,
                       TRUE, req[r].pre_expired, req[r].pre_member)
    /\ req' = [req EXCEPT ![r].pc = pc]

\* a new request takes the lowest free slot
StartOK(r) == req[r].pc = "idle" /\ \A q \in Reqs : q < r => req[q].pc # "idle"

Begin(r, op, u, i, pc) ==
    /\ last' = InvResp(op, u, i, 0, PrePending(i), PreExpired(i), PreMember(i, u))
    /\ req' = [req EXCEPT ![r] = [op |-> op, user |-> u, inv |-> i, pc |-> pc,
                                  pre_expired |-> PreExpired(i),
                                  pre_member |-> PreMember(i, u)]]

Reject(op, u, i, code) ==
    /\ last' = InvResp(op, u, i, code, PrePending(i), PreExpired(i), PreMember(i, u))
    /\ UNCHANGED req

(***************************************************************************)
(* The clock.                                                              *)
(***************************************************************************)
\* a step of a run that is not bounded in length
Free(step) == step /\ UNCHANGED served

\* a step of a run of at most MaxRequests requests
Serve(step) == step /\ served < MaxRequests /\ served' = served + 1

Tick ==
    /\ now < MaxTime
    /\ now' = now + 1
    /\ last' = NoResp
    /\ UNCHANGED <<next_id, teamVars, goalVars, fileVars, req>>

(***************************************************************************)
(* POST /teams/{team_id}/invite                                            *)
(***************************************************************************)
\* generate_invite_code: a fresh random code; one code per invitation
generate_invite_code == next_id.invitation

\* the user the handler finds by u.email == invitation_data.email
InvitedUsers(email) == {u \in Users : EmailOf(u) = email}

send_team_invitation(u, team_id, body_team_id, email) ==
    /\ next_id.invitation <= MaxInvitations
    /\ IF Team_get_by_id(team_id, u) = {}
       THEN /\ last' = [op |-> "send_team_invitation", user |-> u, team |-> team_id,
                        body_team |-> body_team_id, code |-> 404, data |-> {}]
            /\ UNCHANGED <<next_id, teamVars>>
       ELSE IF ~is_user_owner(team_id, u)
       THEN /\ last' = [op |-> "send_team_invitation", user |-> u, team |-> team_id,
                        body_team |-> body_team_id, code |-> 403, data |-> {}]
            /\ UNCHANGED <<next_id, teamVars>>
       ELSE IF body_team_id \notin DOMAIN teams
       THEN \* TeamInvitationCreate.save raises: the insert breaks the foreign key
            /\ last' = [op |-> "send_team_invitation", user |-> u, team |-> team_id,
                        body_team |-> body_team_id, code |-> 500, data |-> {}]
            /\ UNCHANGED <<next_id, teamVars>>
       ELSE LET id == next_id.invitation
                row == [team_id |-> body_team_id, email |-> email,
                        invite_code |-> generate_invite_code, invited_by |-> u,
                        status |-> PENDING, expires_at |-> now + InviteWindow]
            IN /\ team_invitations' = team_invitations @@ (id :> row)
               /\ next_id' = [next_id EXCEPT !.invitation = id + 1]
               /\ notifications' = notifications \cup
                      {[user_id |-> v, type |-> "team_invitation", related_id |-> id]
                          : v \in InvitedUsers(email)}
               /\ last' = [op |-> "send_team_invitation", user |-> u, team |-> team_id,
                           body_team |-> body_team_id, code |-> 201,
                           data |-> {[id |-> id, row |-> row]}]
               /\ UNCHANGED <<teams, team_members, team_statuses>>
    /\ UNCHANGED <<now, goalVars, fileVars, req>>

(***************************************************************************)
(* POST /invitations/{invitation_id}/accept, one action per database call  *)
(***************************************************************************)
\* (mutation: the email test left out)
EmailMismatch_off(inv, u) == FALSE

\* "Verify the invitation is for this user's email"
EmailMismatch(inv, u) == lower(inv.email) # lower(EmailOf(u))

\* select ... eq(id) eq(status, pending), then the email and expiry tests
accept_invitation_select(r, u, i) ==
    /\ StartOK(r)
    /\ IF ~(i \in DOMAIN team_invitations /\ team_invitations[i].status = PENDING)
       THEN Reject("accept_invitation", u, i, 404)
       ELSE IF EmailMismatch(team_invitations[i], u)
       THEN Reject("accept_invitation", u, i, 403)
       ELSE IF IsExpired(team_invitations[i])
       THEN Begin(r, "accept_invitation", u, i, "mark_expired")
       ELSE Begin(r, "accept_invitation", u, i, "insert")
    /\ UNCHANGED <<now, next_id, teamVars, goalVars, fileVars>>

\* "await invitation.decline(supabase)  # Mark as expired", then 400
accept_invitation_expired(r) ==
    /\ req[r].op = "accept_invitation" /\ req[r].pc = "mark_expired"
    /\ team_invitations' = TeamInvitation_decline(req[r].inv)
    /\ Answer(r, 400)
    /\ UNCHANGED <<now, next_id, teams, team_members, team_statuses, notifications,
                   goalVars, fileVars>>

\* member_data.save(supabase, invitation.invited_by)
accept_invitation_insert(r) ==
    /\ req[r].op = "accept_invitation" /\ req[r].pc = "insert"
    /\ LET inv == team_invitations[req[r].inv]
           out == TeamMemberCreate_save(inv.team_id, req[r].user)
       IN IF out = "ok"
          THEN /\ team_members' = team_members \cup
                      {NewMember(inv.team_id, req[r].user, MEMBER, inv.invited_by)}
               /\ next_id' = [next_id EXCEPT !.member = @ + 1]
               /\ Goto(r, "mark_accepted")
          ELSE IF out = "unique_team_membership"
          THEN /\ Goto(r, "mark_accepted_dup")
               /\ UNCHANGED <<team_members, next_id>>
          ELSE /\ Answer(r, 500)
               /\ UNCHANGED <<team_members, next_id>>
    /\ UNCHANGED <<now, teams, team_invitations, team_statuses, notifications,
                   goalVars, fileVars>>

\* invitation.accept(supabase); return member
accept_invitation_accept(r) ==
    /\ req[r].op = "accept_invitation" /\ req[r].pc = "mark_accepted"
    /\ team_invitations' = TeamInvitation_accept(req[r].inv)
    /\ Answer(r, 200)
    /\ UNCHANGED <<now, next_id, teams, team_members, team_statuses, notifications,
                   goalVars, fileVars>>

\* "User is already a member, mark invitation as accepted anyway", then 400
accept_invitation_already(r) ==
    /\ req[r].op = "accept_invitation" /\ req[r].pc = "mark_accepted_dup"
    /\ team_invitations' = TeamInvitation_accept(req[r].inv)
    /\ Answer(r, 400)
    /\ UNCHANGED <<now, next_id, teams, team_members, team_statuses, notifications,
                   goalVars, fileVars>>

(***************************************************************************)
(* POST /invitations/{invitation_id}/decline                               *)
(***************************************************************************)
\* select ... eq(id) eq(email, user_email) eq(status, pending)
decline_invitation_select(r, u, i) ==
    /\ StartOK(r)
    /\ IF ~(/\ i \in DOMAIN team_invitations
            /\ team_invitations[i].email = EmailOf(u)
            /\ team_invitations[i].status = PENDING)
       THEN Reject("decline_invitation", u, i, 404)
       ELSE Begin(r, "decline_invitation", u, i, "mark_declined")
    /\ UNCHANGED <<now, next_id, teamVars, goalVars, fileVars>>

decline_invitation_update(r) ==
    /\ req[r].op = "decline_invitation" /\ req[r].pc = "mark_declined"
    /\ team_invitations' = TeamInvitation_decline(req[r].inv)
    /\ Answer(r, 204)
    /\ UNCHANGED <<now, next_id, teams, team_members, team_statuses, notifications,
                   goalVars, fileVars>>

(***************************************************************************)
(* POST /invite/{invite_code}/join                                         *)
(***************************************************************************)
\* TeamInvitation.get_by_code
get_by_code(code) ==
    {i \in DOMAIN team_invitations : team_invitations[i].invite_code = code}

join_via_invite_code_select(r, u, code) ==
    /\ StartOK(r)
    /\ IF get_by_code(code) = {}
       THEN Reject("join_via_invite_code", u, 0, 404)
       ELSE LET i == CHOOSE j \in get_by_code(code) : TRUE
            IN IF team_invitations[i].status # PENDING
               THEN Reject("join_via_invite_code", u, i, 400)
               ELSE IF IsExpired(team_invitations[i])
               THEN Reject("join_via_invite_code", u, i, 400)
               ELSE Begin(r, "join_via_invite_code", u, i, "insert")
    /\ UNCHANGED <<now, next_id, teamVars, goalVars, fileVars>>

join_via_invite_code_insert(r) ==
    /\ req[r].op = "join_via_invite_code" /\ req[r].pc = "insert"
    /\ LET inv == team_invitations[req[r].inv]
           out == TeamMemberCreate_save(inv.team_id, req[r].user)
       IN IF out = "ok"
          THEN /\ team_members' = team_members \cup
                      {NewMember(inv.team_id, req[r].user, MEMBER, inv.invited_by)}
               /\ next_id' = [next_id EXCEPT !.member = @ + 1]
               /\ Goto(r, "mark_accepted")
          ELSE IF out = "unique_team_membership"
          THEN /\ Answer(r, 400)
               /\ UNCHANGED <<team_members, next_id>>
          ELSE /\ Answer(r, 500)
               /\ UNCHANGED <<team_members, next_id>>
    /\ UNCHANGED <<now, teams, team_invitations, team_statuses, notifications,
                   goalVars, fileVars>>

join_via_invite_code_accept(r) ==
    /\ req[r].op = "join_via_invite_code" /\ req[r].pc = "mark_accepted"
    /\ team_invitations' = TeamInvitation_accept(req[r].inv)
    /\ Answer(r, 200)
    /\ UNCHANGED <<now, next_id, teams, team_members, team_statuses, notifications,
                   goalVars, fileVars>>

(***************************************************************************)
(* The invitation lifecycle: one team owned by alice; bob and carol are    *)
(* outsiders.  Requests overlap in SpecInvite and run one at a time in     *)
(* SpecInviteSeq.                                                          *)
(***************************************************************************)
TeamIdInputs == 1..MaxTeams
InvitationIdInputs == 1..MaxInvitations

TeamRow(name, by) ==
    [name |-> name, description |-> "d0", color_theme |-> "#3B82F6",
     parent_team_id |-> 0, nesting_level |-> 0, created_by |-> by]

InitInvite ==
    /\ now = 0
    /\ next_id = [team |-> 2, member |-> 2, invitation |-> 1, status |-> 1,
                  goal |-> 1, category |-> 1, file |-> 1, key |-> 1]
    /\ teams = (1 :> TeamRow("t1", "alice"))
    /\ team_members = {[id |-> 1, team_id |-> 1, user_id |-> "alice",
                        role |-> OWNER, invited_by |-> "alice"]}
    /\ team_invitations = <<>>
    /\ team_statuses = <<>>
    /\ notifications = {}
    /\ goals = <<>>
    /\ categories = <<>>
    /\ user_statuses = <<>>
    /\ goal_teams = {}
    /\ goal_categories = {}
    /\ goal_files = <<>>
    /\ storage = {}
    /\ req = [r \in Reqs |-> IdleReq]
    /\ served = 0
    /\ last = NoResp

NextInvite(Slots) ==
    \/ Free(Tick)
    \/ \E u \in Users, t \in TeamIdInputs, b \in TeamIdInputs, e \in InviteEmails :
          Free(send_team_invitation(u, t, b, e))
    \/ \E r \in Slots, u \in Users, i \in InvitationIdInputs :
          Free(accept_invitation_select(r, u, i))
    \/ \E r \in Slots :
          Free(accept_invitation_expired(r))
    \/ \E r \in Slots :
          Free(accept_invitation_insert(r))
    \/ \E r \in Slots :
          Free(accept_invitation_accept(r))
    \/ \E r \in Slots :
          Free(accept_invitation_already(r))
    \/ \E r \in Slots, u \in Users, i \in InvitationIdInputs :
          Free(decline_invitation_select(r, u, i))
    \/ \E r \in Slots :
          Free(decline_invitation_update(r))
    \/ \E r \in Slots, u \in Users, c \in InvitationIdInputs :
          Free(join_via_invite_code_select(r, u, c))
    \/ \E r \in Slots :
          Free(join_via_invite_code_insert(r))
    \/ \E r \in Slots :
          Free(join_via_invite_code_accept(r))

SpecInvite == InitInvite /\ [][NextInvite(Reqs)]_vars

SpecInviteSeq == InitInvite /\ [][NextInvite({1})]_vars


(***************************************************************************)
(* Team endpoints, each handler one action.                                *)
(***************************************************************************)
NULL == "NULL"      \* a null column of a stored row

\* an Optional field of a request body: None, or a value
None == {}
Some(v) == {v}
ValueOf(o) == CHOOSE v \in o : TRUE

\* (mutation: status is never taken into the update)
update_dict_no_status(patch) == {f \in DOMAIN patch : patch[f] # None} \ {"status"}

\* "Build update data, excluding unset fields": the fields that are not None
update_dict(patch) == {f \in DOMAIN patch : patch[f] # None}

\* table.update(update_dict): the row with the fields of update_dict overwritten
ApplyUpdate(row, patch) ==
    [f \in DOMAIN row |->
        IF f \in update_dict(patch) THEN ValueOf(patch[f]) ELSE row[f]]

TeamResp(op, u, t, code, data) ==
    [op |-> op, user |-> u, team |-> t, code |-> code, data |-> data]

InvitationsOf(t) ==
    {[id |-> i, row |-> team_invitations[i]] :
        i \in {j \in DOMAIN team_invitations : team_invitations[j].team_id = t}}

StatusesOf(t) ==
    {[id |-> i, row |-> team_statuses[i]] :
        i \in {j \in DOMAIN team_statuses : team_statuses[j].team_id = t}}

GoalsOfTeam(t) ==
    {[id |-> g, row |-> goals[g]] : g \in {h \in DOMAIN goals : <<h, t>> \in goal_teams}}

Without(f, k) == [x \in DOMAIN f \ {k} |-> f[x]]

\* PUT /teams/{team_id}
update_team(u, t, patch) ==
    /\ IF Team_get_by_id(t, u) = {}
       THEN /\ last' = TeamResp("update_team", u, t, 404, {})
            /\ UNCHANGED teams
       ELSE IF update_dict(patch) = {}
       THEN \* Team.update: "Nothing to update, return self"
            /\ last' = TeamResp("update_team", u, t, 200, {teams[t]})
            /\ UNCHANGED teams
       ELSE IF ~is_user_owner(t, u)
       THEN /\ last' = TeamResp("update_team", u, t, 403, {})
            /\ UNCHANGED teams
       ELSE /\ teams' = [teams EXCEPT ![t] = ApplyUpdate(@, patch)]
            /\ last' = TeamResp("update_team", u, t, 200, {ApplyUpdate(teams[t], patch)})
    /\ UNCHANGED <<now, next_id, team_members, team_invitations, team_statuses,
                   notifications, goalVars, fileVars, req>>

\* the rows that reference a deleted team go with it (cleanup at the database
\* level)
TeamCascade(t) ==
    /\ team_members' = team_members \ TeamRows(t)
    /\ team_invitations' =
          [i \in {j \in DOMAIN team_invitations : team_invitations[j].team_id # t}
              |-> team_invitations[i]]
    /\ team_statuses' =
          [i \in {j \in DOMAIN team_statuses : team_statuses[j].team_id # t}
              |-> team_statuses[i]]
    /\ goal_teams' = {gt \in goal_teams : gt[2] # t}

\* DELETE /teams/{team_id}
delete_team(u, t) ==
    /\ IF Team_get_by_id(t, u) = {}
       THEN /\ last' = TeamResp("delete_team", u, t, 404, {})
            /\ UNCHANGED <<teams, team_members, team_invitations, team_statuses, goal_teams>>
       ELSE IF ~is_user_owner(t, u)
       THEN /\ last' = TeamResp("delete_team", u, t, 403, {})
            /\ UNCHANGED <<teams, team_members, team_invitations, team_statuses, goal_teams>>
       ELSE /\ teams' = Without(teams, t)
            /\ TeamCascade(t)
            /\ last' = TeamResp("delete_team", u, t, 204, {})
    /\ UNCHANGED <<now, next_id, notifications, goals, categories, user_statuses, goal_categories,
                   fileVars, req>>

\* POST /teams/{team_id}/members
add_team_member(u, t, member_user_id) ==
    /\ IF Team_get_by_id(t, u) = {}
       THEN /\ last' = TeamResp("add_team_member", u, t, 404, {})
            /\ UNCHANGED <<next_id, team_members, notifications>>
       ELSE IF ~is_user_owner(t, u)
       THEN /\ last' = TeamResp("add_team_member", u, t, 403, {})
            /\ UNCHANGED <<next_id, team_members, notifications>>
       ELSE IF TeamMemberCreate_save(t, member_user_id) = "unique_team_membership"
       THEN /\ last' = TeamResp("add_team_member", u, t, 400, {})
            /\ UNCHANGED <<next_id, team_members, notifications>>
       ELSE /\ next_id.member <= MaxMemberId
            /\ team_members' = team_members \cup {NewMember(t, member_user_id, MEMBER, u)}
            /\ next_id' = [next_id EXCEPT !.member = @ + 1]
            /\ notifications' = notifications \cup
                  {[user_id |-> member_user_id, type |-> "team_member_added",
                    related_id |-> t]}
            /\ last' = TeamResp("add_team_member", u, t, 201,
                                {NewMember(t, member_user_id, MEMBER, u)})
    /\ UNCHANGED <<now, teams, team_invitations, team_statuses, goalVars, fileVars, req>>

\* TeamMember.update_role: update ... where id = self.id
update_role(m, new_role) ==
    (team_members \ {m}) \cup {[m EXCEPT !.role = new_role]}

\* PUT /teams/{team_id}/members/{member_user_id}
update_team_member_role(u, t, member_user_id, role) ==
    /\ IF Team_get_by_id(t, u) = {}
       THEN /\ last' = TeamResp("update_team_member_role", u, t, 404, {})
            /\ UNCHANGED team_members
       ELSE IF ~is_user_owner(t, u)
       THEN /\ last' = TeamResp("update_team_member_role", u, t, 403, {})
            /\ UNCHANGED team_members
       ELSE IF MemberRows(t, member_user_id) = {}
       THEN /\ last' = TeamResp("update_team_member_role", u, t, 404, {})
            /\ UNCHANGED team_members
       ELSE LET m == CHOOSE x \in MemberRows(t, member_user_id) : TRUE
            IN /\ team_members' = update_role(m, role)
               /\ last' = TeamResp("update_team_member_role", u, t, 200,
                                   {[m EXCEPT !.role = role]})
    /\ UNCHANGED <<now, next_id, teams, team_invitations, team_statuses, notifications,
                   goalVars, fileVars, req>>

\* DELETE /teams/{team_id}/members/{member_user_id}
RemoveResp(u, t, member_user_id, code) ==
    [op |-> "remove_team_member", user |-> u, team |-> t, code |-> code, data |-> {},
     member_user_id |-> member_user_id]

remove_team_member(u, t, member_user_id) ==
    /\ IF Team_get_by_id(t, u) = {}
       THEN /\ last' = RemoveResp(u, t, member_user_id, 404)
            /\ UNCHANGED <<team_members, notifications>>
       ELSE IF ~is_user_owner(t, u) /\ member_user_id # u
       THEN /\ last' = RemoveResp(u, t, member_user_id, 403)
            /\ UNCHANGED <<team_members, notifications>>
       ELSE IF MemberRows(t, member_user_id) = {}
       THEN /\ last' = RemoveResp(u, t, member_user_id, 404)
            /\ UNCHANGED <<team_members, notifications>>
       ELSE LET m == CHOOSE x \in MemberRows(t, member_user_id) : TRUE
            IN /\ team_members' = team_members \ {m}
               /\ notifications' =
                     IF member_user_id # u
                     THEN notifications \cup
                             {[user_id |-> member_user_id, type |-> "team_member_removed",
                               related_id |-> t]}
                     ELSE notifications
               /\ last' = RemoveResp(u, t, member_user_id, 204)
    /\ UNCHANGED <<now, next_id, teams, team_invitations, team_statuses,
                   goalVars, fileVars, req>>

(***************************************************************************)
(* Team status endpoints.                                                  *)
(***************************************************************************)
\* member_check: select role where team_id, user_id; data[0]["role"] != "owner"
StatusOwnerCheck(t, u) ==
    IF MemberRows(t, u) = {} THEN "not_member"
    ELSE IF (CHOOSE m \in MemberRows(t, u) : TRUE).role # OWNER THEN "not_owner"
    ELSE "ok"

\* the table's unique_team_status_name constraint
StatusNameTaken(t, name, except) ==
    \E i \in DOMAIN team_statuses \ {except} :
        team_statuses[i].team_id = t /\ team_statuses[i].name = name

\* POST /teams/{team_id}/statuses
create_team_status(u, t, name) ==
    /\ IF StatusOwnerCheck(t, u) # "ok"
       THEN /\ last' = TeamResp("create_team_status", u, t, 403, {})
            /\ UNCHANGED <<next_id, team_statuses>>
       ELSE IF StatusNameTaken(t, name, 0)
       THEN /\ last' = TeamResp("create_team_status", u, t, 409, {})
            /\ UNCHANGED <<next_id, team_statuses>>
       ELSE LET id == next_id.status
                row == [team_id |-> t, name |-> name, color |-> "#3B82F6",
                        created_by |-> u]
            IN /\ id <= MaxStatuses
               /\ team_statuses' = team_statuses @@ (id :> row)
               /\ next_id' = [next_id EXCEPT !.status = id + 1]
               /\ last' = TeamResp("create_team_status", u, t, 201,
                                   {[id |-> id, row |-> row]})
    /\ UNCHANGED <<now, teams, team_members, team_invitations, notifications,
                   goalVars, fileVars, req>>

\* PUT /teams/{team_id}/statuses/{status_id}
update_team_status(u, t, status_id, patch) ==
    /\ IF StatusOwnerCheck(t, u) # "ok"
       THEN /\ last' = TeamResp("update_team_status", u, t, 403, {})
            /\ UNCHANGED team_statuses
       ELSE IF ~(status_id \in DOMAIN team_statuses /\ team_statuses[status_id].team_id = t)
       THEN /\ last' = TeamResp("update_team_status", u, t, 404, {})
            /\ UNCHANGED team_statuses
       ELSE IF update_dict(patch) = {}
       THEN /\ last' = TeamResp("update_team_status", u, t, 200,
                                {[id |-> status_id, row |-> team_statuses[status_id]]})
            /\ UNCHANGED team_statuses
       ELSE IF "name" \in update_dict(patch) /\ StatusNameTaken(t, ValueOf(patch.name), status_id)
       THEN /\ last' = TeamResp("update_team_status", u, t, 409, {})
            /\ UNCHANGED team_statuses
       ELSE /\ team_statuses' = [team_statuses EXCEPT ![status_id] = ApplyUpdate(@, patch)]
            /\ last' = TeamResp("update_team_status", u, t, 200,
                     {[id |-> status_id, row |-> ApplyUpdate(team_statuses[status_id], patch)]})
    /\ UNCHANGED <<now, next_id, teams, team_members, team_invitations, notifications,
                   goalVars, fileVars, req>>

\* DELETE /teams/{team_id}/statuses/{status_id}
delete_team_status(u, t, status_id) ==
    /\ IF StatusOwnerCheck(t, u) # "ok"
       THEN /\ last' = TeamResp("delete_team_status", u, t, 403, {})
            /\ UNCHANGED team_statuses
       ELSE /\ team_statuses' =
                  IF status_id \in DOMAIN team_statuses /\ team_statuses[status_id].team_id = t
                  THEN Without(team_statuses, status_id)
                  ELSE team_statuses
            /\ last' = TeamResp("delete_team_status", u, t, 204, {})
    /\ UNCHANGED <<now, next_id, teams, team_members, team_invitations, notifications,
                   goalVars, fileVars, req>>

(***************************************************************************)
(* Team read endpoints.                                                    *)
(***************************************************************************)
Read(resp) == last' = resp /\ UNCHANGED <<now, next_id, teamVars, goalVars, fileVars, req>>

\* GET /teams/{team_id}
read_team(u, t) ==
    Read(IF Team_get_by_id(t, u) = {}
         THEN TeamResp("read_team", u, t, 404, {})
         ELSE TeamResp("read_team", u, t, 200, {teams[t]}))

\* GET /teams/{team_id}/members
read_team_members(u, t) ==
    Read(IF Team_get_by_id(t, u) = {}
         THEN TeamResp("read_team_members", u, t, 404, {})
         ELSE TeamResp("read_team_members", u, t, 200, TeamRows(t)))

\* GET /teams/{team_id}/goals
read_team_goals(u, t) ==
    Read(IF Team_get_by_id(t, u) = {}
         THEN TeamResp("read_team_goals", u, t, 404, {})
         ELSE TeamResp("read_team_goals", u, t, 200, GoalsOfTeam(t)))

\* GET /teams/{team_id}/invitations
read_team_invitations(u, t) ==
    Read(IF Team_get_by_id(t, u) = {}
         THEN TeamResp("read_team_invitations", u, t, 404, {})
         ELSE TeamResp("read_team_invitations", u, t, 200, InvitationsOf(t)))

\* GET /teams/{team_id}/statuses
get_team_statuses(u, t) ==
    Read(IF MemberRows(t, u) = {}
         THEN TeamResp("get_team_statuses", u, t, 403, {})
         ELSE TeamResp("get_team_statuses", u, t, 200, StatusesOf(t)))

(***************************************************************************)
(* Rows as the create handlers insert them, and the request bodies tried.  *)
(***************************************************************************)
GoalRow(title, by, public) ==
    [title |-> title, description |-> NULL, status |-> "pending", target_date |-> 0,
     user_id |-> by, is_public |-> public,
     scope |-> IF public THEN "public" ELSE "private",
     parent_goal_id |-> 0, display_order |-> 0, template_id |-> 0]

MemberRow(id, t, u, role, by) ==
    [id |-> id, team_id |-> t, user_id |-> u, role |-> role, invited_by |-> by]

TeamPatches ==
    {[name |-> None, description |-> None, color_theme |-> None],
     [name |-> Some("t9"), description |-> None, color_theme |-> None],
     [name |-> None, description |-> Some("d9"), color_theme |-> Some("#10B981")]}

StatusNames == {"Blocked", "Done"}

StatusPatches ==
    {[name |-> None, color |-> None],
     [name |-> Some("Done"), color |-> None],
     [name |-> None, color |-> Some("#EF4444")]}

StatusIdInputs == 1..MaxStatuses

(***************************************************************************)
(* SpecTeam: every team endpoint, in runs of at most MaxRequests requests, *)
(* from the tables after alice created team 1, added bob, created status 1 *)
(* and assigned her goal 1 to the team, and carol created team 2.          *)
(***************************************************************************)
InitTeam ==
    /\ now = 0
    /\ next_id = [team |-> 3, member |-> 4, invitation |-> 1,
                  status |-> 2, goal |-> 2, category |-> 1, file |-> 1, key |-> 1]
    /\ teams = (1 :> TeamRow("t1", "alice")) @@ (2 :> TeamRow("t2", "carol"))
    /\ team_members = {MemberRow(1, 1, "alice", OWNER, "alice"),
                       MemberRow(2, 1, "bob", MEMBER, "alice"),
                       MemberRow(3, 2, "carol", OWNER, "carol")}
    /\ team_invitations = <<>>
    /\ team_statuses = (1 :> [team_id |-> 1, name |-> "Blocked", color |-> "#3B82F6",
                              created_by |-> "alice"])
    /\ notifications = {[user_id |-> "bob", type |-> "team_member_added", related_id |-> 1]}
    /\ goals = (1 :> GoalRow("g1", "alice", FALSE))
    /\ categories = <<>>
    /\ user_statuses = <<>>
    /\ goal_teams = {<<1, 1>>}
    /\ goal_categories = {}
    /\ goal_files = <<>>
    /\ storage = {}
    /\ req = [r \in Reqs |-> IdleReq]
    /\ served = 0
    /\ last = NoResp

NextTeam ==
    \/ \E u \in Users, t \in TeamIdInputs, p \in TeamPatches :
          Serve(update_team(u, t, p))
    \/ \E u \in Users, t \in TeamIdInputs :
          Serve(delete_team(u, t))
    \/ \E u \in Users, t \in TeamIdInputs, x \in Users :
          Serve(add_team_member(u, t, x))
    \/ \E u \in Users, t \in TeamIdInputs, x \in Users, role \in {OWNER, MEMBER} :
          Serve(update_team_member_role(u, t, x, role))
    \/ \E u \in Users, t \in TeamIdInputs, x \in Users :
          Serve(remove_team_member(u, t, x))
    \/ \E u \in Users, t \in TeamIdInputs, b \in TeamIdInputs, e \in InviteEmails :
          Serve(send_team_invitation(u, t, b, e))
    \/ \E u \in Users, t \in TeamIdInputs, n \in StatusNames :
          Serve(create_team_status(u, t, n))
    \/ \E u \in Users, t \in TeamIdInputs, i \in StatusIdInputs, p \in StatusPatches :
          Serve(update_team_status(u, t, i, p))
    \/ \E u \in Users, t \in TeamIdInputs, i \in StatusIdInputs :
          Serve(delete_team_status(u, t, i))
    \/ \E u \in Users, t \in TeamIdInputs : Serve(read_team(u, t))
    \/ \E u \in Users, t \in TeamIdInputs : Serve(read_team_members(u, t))
    \/ \E u \in Users, t \in TeamIdInputs : Serve(read_team_goals(u, t))
    \/ \E u \in Users, t \in TeamIdInputs : Serve(read_team_invitations(u, t))
    \/ \E u \in Users, t \in TeamIdInputs : Serve(get_team_statuses(u, t))

SpecTeam == InitTeam /\ [][NextTeam]_vars

(***************************************************************************)
(* SpecMembers: the team reads against every membership that adding and    *)
(* removing members and deleting the team can produce, runs of any length, *)
(* from team 1 (alice owner, bob member, carol invited) with a status and  *)
(* a goal; team 2 does not exist.                                          *)
(***************************************************************************)
InitMembers ==
    /\ now = 0
    /\ next_id = [team |-> 2, member |-> 3, invitation |-> 2, status |-> 2,
                  goal |-> 2, category |-> 1, file |-> 1, key |-> 1]
    /\ teams = (1 :> TeamRow("t1", "alice"))
    /\ team_members = {MemberRow(1, 1, "alice", OWNER, "alice"),
                       MemberRow(2, 1, "bob", MEMBER, "alice")}
    /\ team_invitations =
          (1 :> [team_id |-> 1, email |-> <<99, 97>>, invite_code |-> 1,
                 invited_by |-> "alice", status |-> PENDING,
                 expires_at |-> InviteWindow])
    /\ team_statuses = (1 :> [team_id |-> 1, name |-> "Blocked", color |-> "#3B82F6",
                              created_by |-> "alice"])
    /\ notifications = {[user_id |-> "bob", type |-> "team_member_added", related_id |-> 1],
                        [user_id |-> "carol", type |-> "team_invitation", related_id |-> 1]}
    /\ goals = (1 :> GoalRow("g1", "alice", FALSE))
    /\ categories = <<>>
    /\ user_statuses = <<>>
    /\ goal_teams = {<<1, 1>>}
    /\ goal_categories = {}
    /\ goal_files = <<>>
    /\ storage = {}
    /\ req = [r \in Reqs |-> IdleReq]
    /\ served = 0
    /\ last = NoResp

NextMembers ==
    \/ \E u \in Users, t \in TeamIdInputs : Free(delete_team(u, t))
    \/ \E u \in Users, t \in TeamIdInputs, x \in Users : Free(add_team_member(u, t, x))
    \/ \E u \in Users, t \in TeamIdInputs, x \in Users : Free(remove_team_member(u, t, x))
    \/ \E u \in Users, t \in TeamIdInputs : Free(read_team(u, t))
    \/ \E u \in Users, t \in TeamIdInputs : Free(read_team_members(u, t))
    \/ \E u \in Users, t \in TeamIdInputs : Free(read_team_goals(u, t))
    \/ \E u \in Users, t \in TeamIdInputs : Free(read_team_invitations(u, t))
    \/ \E u \in Users, t \in TeamIdInputs : Free(get_team_statuses(u, t))

SpecMembers == InitMembers /\ [][NextMembers]_vars

(***************************************************************************)
(* POST /teams, and SpecNest: teams created under one another.             *)
(***************************************************************************)
MaxNestingLevel == 2    \* "if parent_team.nesting_level >= 2"

\* (mutation: the nesting depth test never fires)
nesting_too_deep_off(parent_team) == FALSE

\* "Check nesting depth"
nesting_too_deep(parent_team) == parent_team.nesting_level >= MaxNestingLevel

\* the details of the HTTPExceptions that create_team raises inside its try
ParentNotFound == "Parent team not found or you are not a member"
WouldBeExceeded == "Maximum team nesting depth (3 levels) would be exceeded"

\* "Maximum team nesting depth" in str(e)
MentionsNestingDepth(detail) == detail \in {WouldBeExceeded}

\* except Exception as e: the HTTPExceptions raised inside the try arrive here
\* too, str(e) being "<status_code>: <detail>"
create_team_except(detail) == IF MentionsNestingDepth(detail) THEN 400 ELSE 500

\* the nesting_level the database gives an inserted team (the insert of
\* TeamCreate.save does not send one)
InsertedNestingLevel(parent_team_id) ==
    IF parent_team_id = 0 THEN 0 ELSE teams[parent_team_id].nesting_level + 1

\* the owner row the database adds for the creator of an inserted team
CreatorRow(t, u) == NewMember(t, u, OWNER, u)

CreateResp(u, parent_team_id, t, code, data) ==
    [op |-> "create_team", user |-> u, team |-> t, parent_team_id |-> parent_team_id,
     code |-> code, data |-> data]

\* POST /teams; parent_team_id 0 stands for a body without one
create_team(u, name, parent_team_id) ==
    /\ IF parent_team_id # 0 /\ Team_get_by_id(parent_team_id, u) = {}
       THEN /\ last' = CreateResp(u, parent_team_id, 0, create_team_except(ParentNotFound), {})
            /\ UNCHANGED <<next_id, teams, team_members>>
       ELSE IF parent_team_id # 0 /\ nesting_too_deep(teams[parent_team_id])
       THEN /\ last' = CreateResp(u, parent_team_id, 0, create_team_except(WouldBeExceeded), {})
            /\ UNCHANGED <<next_id, teams, team_members>>
       ELSE LET id == next_id.team
                row == [TeamRow(name, u) EXCEPT
                          !.parent_team_id = parent_team_id,
                          !.nesting_level = InsertedNestingLevel(parent_team_id)]
            IN /\ id <= MaxCreatedTeams
               /\ teams' = teams @@ (id :> row)
               /\ team_members' = team_members \cup {CreatorRow(id, u)}
               /\ next_id' = [next_id EXCEPT !.team = id + 1, !.member = @ + 1]
               /\ last' = CreateResp(u, parent_team_id, id, 201, {row})
    /\ UNCHANGED <<now, team_invitations, team_statuses, notifications,
                   goalVars, fileVars, req>>

ParentIdInputs == 0..MaxCreatedTeams

\* alice has created team 1 and added bob; carol is in no team
InitNest ==
    /\ now = 0
    /\ next_id = [team |-> 2, member |-> 3, invitation |-> 1, status |-> 1,
                  goal |-> 1, category |-> 1, file |-> 1, key |-> 1]
    /\ teams = (1 :> TeamRow("t1", "alice"))
    /\ team_members = {MemberRow(1, 1, "alice", OWNER, "alice"),
                       MemberRow(2, 1, "bob", MEMBER, "alice")}
    /\ team_invitations = <<>>
    /\ team_statuses = <<>>
    /\ notifications = {[user_id |-> "bob", type |-> "team_member_added", related_id |-> 1]}
    /\ goals = <<>>
    /\ categories = <<>>
    /\ user_statuses = <<>>
    /\ goal_teams = {}
    /\ goal_categories = {}
    /\ goal_files = <<>>
    /\ storage = {}
    /\ req = [r \in Reqs |-> IdleReq]
    /\ served = 0
    /\ last = NoResp

NextNest ==
    \/ \E u \in Users, p \in ParentIdInputs : Free(create_team(u, "t2", p))
    \/ \E u \in Users, t \in ParentIdInputs \ {0} : Free(read_team(u, t))

SpecNest == InitNest /\ [][NextNest]_vars

(***************************************************************************)
(* SpecJoin: the three ways into a team (add_team_member, and overlapping  *)
(* accept_invitation and join_via_invite_code requests), in runs of at     *)
(* most MaxRequests requests.                                              *)
(***************************************************************************)
\* alice owns team 1 and has invited bob's address; invitation 1 is pending
InitJoin ==
    /\ now = 0
    /\ next_id = [team |-> 2, member |-> 2, invitation |-> 2, status |-> 1,
                  goal |-> 1, category |-> 1, file |-> 1, key |-> 1]
    /\ teams = (1 :> TeamRow("t1", "alice"))
    /\ team_members = {MemberRow(1, 1, "alice", OWNER, "alice")}
    /\ team_invitations =
          (1 :> [team_id |-> 1, invited_by |-> "alice", expires_at |-> InviteWindow,
                 status |-> PENDING, email |-> <<98, 111>>, invite_code |-> 1])
    /\ team_statuses = <<>>
    /\ notifications = {}
    /\ goals = <<>>
    /\ categories = <<>>
    /\ user_statuses = <<>>
    /\ goal_teams = {}
    /\ goal_categories = {}
    /\ goal_files = <<>>
    /\ storage = {}
    /\ req = [r \in Reqs |-> IdleReq]
    /\ served = 0
    /\ last = NoResp

NextJoin ==
    \/ \E u \in Users, t \in TeamIdInputs, m \in Users : Serve(add_team_member(u, t, m))
    \/ \E r \in Reqs, u \in Users, i \in InvitationIdInputs :
          Serve(accept_invitation_select(r, u, i))
    \/ \E r \in Reqs : Free(accept_invitation_insert(r))
    \/ \E r \in Reqs : Free(accept_invitation_accept(r))
    \/ \E r \in Reqs : Free(accept_invitation_already(r))
    \/ \E r \in Reqs, u \in Users, c \in InvitationIdInputs :
          Serve(join_via_invite_code_select(r, u, c))
    \/ \E r \in Reqs : Free(join_via_invite_code_insert(r))
    \/ \E r \in Reqs : Free(join_via_invite_code_accept(r))

SpecJoin == InitJoin /\ [][NextJoin]_vars

(***************************************************************************)
(* Goal endpoints, each handler one action.                                *)
(***************************************************************************)
\* (mutation: the user_id filter left out)
Goal_get_by_id_any(g, u) == IF g \in DOMAIN goals THEN {g} ELSE {}

\* Goal.get_by_id: select * where id = goal_id and user_id = user_id
Goal_get_by_id(g, u) ==
    IF g \in DOMAIN goals /\ goals[g].user_id = u THEN {g} ELSE {}

\* (mutation: the user_id filter left out)
Category_get_by_id_any(c, u) == IF c \in DOMAIN categories THEN {c} ELSE {}

\* Category.get_by_id: select * where id = category_id and user_id = user_id
Category_get_by_id(c, u) ==
    IF c \in DOMAIN categories /\ categories[c].user_id = u THEN {c} ELSE {}

TeamsOfGoal(g) == {t \in DOMAIN teams : <<g, t>> \in goal_teams}
CategoriesOfGoal(g) == {c \in DOMAIN categories : <<g, c>> \in goal_categories}

GoalResp(op, u, g, code, data) ==
    [op |-> op, user |-> u, goal |-> g, code |-> code, data |-> data]

\* a goal as a response carries it: the row, and the teams and categories lists
GoalPayload(g, row, ts, cs) == [id |-> g, row |-> row, teams |-> ts, categories |-> cs]

\* GET /goals/{goal_id}: the Goal built from the row alone
read_goal(u, g) ==
    /\ last' = IF Goal_get_by_id(g, u) = {}
               THEN GoalResp("read_goal", u, g, 404, {})
               ELSE GoalResp("read_goal", u, g, 200, {GoalPayload(g, goals[g], {}, {})})
    /\ UNCHANGED <<now, next_id, teamVars, goalVars, fileVars, req>>

UpdateResp(u, g, patch, code, data) ==
    [op |-> "update_goal", user |-> u, goal |-> g, code |-> code, data |-> data,
     patch |-> patch]

\* PUT /goals/{goal_id}: Goal.update, then the goal fetched with its joins
update_goal(u, g, patch) ==
    /\ IF Goal_get_by_id(g, u) = {}
       THEN /\ last' = UpdateResp(u, g, patch, 404, {})
            /\ UNCHANGED goals
       ELSE IF update_dict(patch) = {}
       THEN /\ last' = UpdateResp(u, g, patch, 200,
                         {GoalPayload(g, goals[g], TeamsOfGoal(g), CategoriesOfGoal(g))})
            /\ UNCHANGED goals
       ELSE IF goals[g].user_id # u
       THEN \* update ... where id and user_id matched no row
            /\ last' = UpdateResp(u, g, patch, 500, {})
            /\ UNCHANGED goals
       ELSE /\ goals' = [goals EXCEPT ![g] = ApplyUpdate(@, patch)]
            /\ last' = UpdateResp(u, g, patch, 200,
                         {GoalPayload(g, ApplyUpdate(goals[g], patch),
                                      TeamsOfGoal(g), CategoriesOfGoal(g))})
    /\ UNCHANGED <<now, next_id, teamVars, categories, user_statuses, goal_teams, goal_categories,
                   fileVars, req>>

\* the join rows of a deleted goal go with it (cleanup at the database level)
GoalCascade(g) ==
    /\ goal_teams' = {gt \in goal_teams : gt[1] # g}
    /\ goal_categories' = {gc \in goal_categories : gc[1] # g}

\* (mutation: the delete removes nothing)
Goal_delete_noop(g, u) == goals

\* Goal.delete: delete from goals where id = g and user_id = u
Goal_delete(g, u) == IF goals[g].user_id = u THEN Without(goals, g) ELSE goals

\* DELETE /goals/{goal_id}
delete_goal(u, g) ==
    /\ IF Goal_get_by_id(g, u) = {}
       THEN /\ last' = GoalResp("delete_goal", u, g, 404, {})
            /\ UNCHANGED <<goals, goal_teams, goal_categories>>
       ELSE /\ goals' = Goal_delete(g, u)
            /\ IF goals[g].user_id = u
               THEN GoalCascade(g)
               ELSE UNCHANGED <<goal_teams, goal_categories>>
            /\ last' = GoalResp("delete_goal", u, g, 204, {})
    /\ UNCHANGED <<now, next_id, teamVars, categories, user_statuses, fileVars, req>>

\* the answer of the two assign handlers, with the ids of the request body
AssignResp(op, u, g, ids, code) ==
    [op |-> op, user |-> u, goal |-> g, code |-> code, data |-> {}, ids |-> ids]

\* POST /goals/{goal_id}/categories: the goal's assignments replaced
assign_goal_to_categories(u, g, category_ids) ==
    /\ IF Goal_get_by_id(g, u) = {}
       THEN /\ last' = AssignResp("assign_goal_to_categories", u, g, category_ids, 404)
            /\ UNCHANGED goal_categories
       ELSE IF \E c \in category_ids : Category_get_by_id(c, u) = {}
       THEN /\ last' = AssignResp("assign_goal_to_categories", u, g, category_ids, 404)
            /\ UNCHANGED goal_categories
       ELSE /\ goal_categories' =
                  {gc \in goal_categories : gc[1] # g} \cup {<<g, c>> : c \in category_ids}
            /\ last' = AssignResp("assign_goal_to_categories", u, g, category_ids, 201)
    /\ UNCHANGED <<now, next_id, teamVars, goals, categories, user_statuses, goal_teams,
                   fileVars, req>>

\* (mutation: one team the caller belongs to is enough)
member_of_some(team_ids, u) ==
    team_ids = {} \/ \E t \in team_ids : Team_get_by_id(t, u) # {}

\* "Verify user is a member of all specified teams"
member_of_all(team_ids, u) == \A t \in team_ids : Team_get_by_id(t, u) # {}

\* POST /goals/{goal_id}/teams
assign_goal_to_teams(u, g, team_ids) ==
    /\ IF Goal_get_by_id(g, u) = {}
       THEN /\ last' = AssignResp("assign_goal_to_teams", u, g, team_ids, 404)
            /\ UNCHANGED goal_teams
       ELSE IF ~member_of_all(team_ids, u)
       THEN /\ last' = AssignResp("assign_goal_to_teams", u, g, team_ids, 404)
            /\ UNCHANGED goal_teams
       ELSE \* a pair already there answers unique_goal_team_assignment: "that's okay"
            /\ goal_teams' = goal_teams \cup {<<g, t>> : t \in team_ids}
            /\ last' = AssignResp("assign_goal_to_teams", u, g, team_ids, 201)
    /\ UNCHANGED <<now, next_id, teamVars, goals, categories, user_statuses, goal_categories,
                   fileVars, req>>

\* DELETE /goals/{goal_id}/teams/{team_id}
unassign_goal_from_team(u, g, t) ==
    /\ IF Goal_get_by_id(g, u) = {}
       THEN /\ last' = GoalResp("unassign_goal_from_team", u, g, 404, {})
            /\ UNCHANGED goal_teams
       ELSE /\ goal_teams' = goal_teams \ {<<g, t>>}
            /\ last' = GoalResp("unassign_goal_from_team", u, g, 204, {})
    /\ UNCHANGED <<now, next_id, teamVars, goals, categories, user_statuses, goal_categories,
                   fileVars, req>>

(***************************************************************************)
(* SpecGoal: the goal endpoints from a state with alice's goal 1 (in team  *)
(* 1 and category 1); bob owns category 2; goal 2 does not exist.          *)
(***************************************************************************)
GoalIdInputs == 1..MaxGoals
CategoryIdInputs == 1..MaxCategories

NoPatch ==
    [title |-> None, description |-> None, status |-> None, target_date |-> None,
     is_public |-> None, scope |-> None, parent_goal_id |-> None, display_order |-> None]

GoalPatches ==
    {NoPatch,
     [NoPatch EXCEPT !.status = Some("completed")],
     [NoPatch EXCEPT !.title = Some("g9"), !.is_public = Some(TRUE)]}

InitGoal ==
    /\ now = 0
    /\ next_id = [team |-> 3, member |-> 4, invitation |-> 1, status |-> 1,
                  goal |-> 2, category |-> 3, file |-> 1, key |-> 1]
    /\ teams = (1 :> TeamRow("t1", "alice")) @@ (2 :> TeamRow("t2", "carol"))
    /\ team_members = {MemberRow(1, 1, "alice", OWNER, "alice"),
                       MemberRow(2, 1, "bob", MEMBER, "alice"),
                       MemberRow(3, 2, "carol", OWNER, "carol")}
    /\ team_invitations = <<>>
    /\ team_statuses = <<>>
    /\ notifications = {[user_id |-> "bob", type |-> "team_member_added", related_id |-> 1]}
    /\ goals = (1 :> GoalRow("g1", "alice", FALSE))
    /\ categories = (1 :> [name |-> "c1", user_id |-> "alice"])
                    @@ (2 :> [name |-> "c2", user_id |-> "bob"])
    /\ user_statuses = (1 :> [name |-> "Blocked", user_id |-> "alice"])
    /\ goal_teams = {<<1, 1>>}
    /\ goal_categories = {<<1, 1>>}
    /\ goal_files = <<>>
    /\ storage = {}
    /\ req = [r \in Reqs |-> IdleReq]
    /\ served = 0
    /\ last = NoResp

NextGoal ==
    \/ \E u \in Users, g \in GoalIdInputs : Free(read_goal(u, g))
    \/ \E u \in Users, g \in GoalIdInputs, p \in GoalPatches : Free(update_goal(u, g, p))
    \/ \E u \in Users, g \in GoalIdInputs : Free(delete_goal(u, g))
    \/ \E u \in Users, g \in GoalIdInputs, cs \in SUBSET CategoryIdInputs :
          Free(assign_goal_to_categories(u, g, cs))
    \/ \E u \in Users, g \in GoalIdInputs, ts \in SUBSET TeamIdInputs :
          Free(assign_goal_to_teams(u, g, ts))
    \/ \E u \in Users, g \in GoalIdInputs, t \in TeamIdInputs :
          Free(unassign_goal_from_team(u, g, t))

SpecGoal == InitGoal /\ [][NextGoal]_vars

(***************************************************************************)
(* SpecAssign: a goal's category and team assignments written and the team *)
(* goals read.                                                             *)
(***************************************************************************)
\* alice owns goal 1 and both categories and belongs to both teams; bob owns
\* goal 2 and belongs to team 1
InitAssign ==
    /\ now = 0
    /\ next_id = [team |-> 3, member |-> 5, invitation |-> 1, status |-> 1,
                  goal |-> 3, category |-> 3, file |-> 1, key |-> 1]
    /\ teams = (1 :> TeamRow("t1", "alice")) @@ (2 :> TeamRow("t2", "carol"))
    /\ team_members = {MemberRow(1, 1, "alice", OWNER, "alice"),
                       MemberRow(2, 1, "bob", MEMBER, "alice"),
                       MemberRow(3, 2, "carol", OWNER, "carol"),
                       MemberRow(4, 2, "alice", MEMBER, "carol")}
    /\ team_invitations = <<>>
    /\ team_statuses = <<>>
    /\ notifications = {[user_id |-> "bob", type |-> "team_member_added", related_id |-> 1]}
    /\ goals = (1 :> GoalRow("g1", "alice", FALSE)) @@ (2 :> GoalRow("g2", "bob", FALSE))
    /\ categories = (1 :> [name |-> "c1", user_id |-> "alice"])
                    @@ (2 :> [name |-> "c2", user_id |-> "alice"])
    /\ user_statuses = <<>>
    /\ goal_teams = {<<1, 1>>}
    /\ goal_categories = {<<1, 1>>}
    /\ goal_files = <<>>
    /\ storage = {}
    /\ req = [r \in Reqs |-> IdleReq]
    /\ served = 0
    /\ last = NoResp

NextAssign ==
    \/ \E u \in Users, g \in GoalIdInputs, cs \in SUBSET CategoryIdInputs :
          Free(assign_goal_to_categories(u, g, cs))
    \/ \E u \in Users, g \in GoalIdInputs, ts \in SUBSET TeamIdInputs :
          Free(assign_goal_to_teams(u, g, ts))
    \/ \E u \in Users, g \in GoalIdInputs, t \in TeamIdInputs :
          Free(unassign_goal_from_team(u, g, t))
    \/ \E u \in Users, t \in TeamIdInputs : Free(read_team_goals(u, t))

SpecAssign == InitAssign /\ [][NextAssign]_vars

(***************************************************************************)
(* SpecGoalLife: goals created, listed, read, updated and deleted, from    *)
(* the state of SpecGoal.  Goal ids come from the table's sequence and are *)
(* never given twice.                                                      *)
(***************************************************************************)
\* POST /goals: GoalCreate.save (scope follows is_public when left private)
create_goal(u, title, is_public) ==
    /\ next_id.goal <= MaxGoals
    /\ goals' = goals @@ (next_id.goal :> GoalRow(title, u, is_public))
    /\ next_id' = [next_id EXCEPT !.goal = @ + 1]
    /\ last' = GoalResp("create_goal", u, next_id.goal, 201,
                        {GoalPayload(next_id.goal, GoalRow(title, u, is_public), {}, {})})
    /\ UNCHANGED <<now, teamVars, categories, user_statuses, goal_teams, goal_categories,
                   fileVars, req>>

\* GET /goals without filters: Goal.get_all
read_goals(u) ==
    /\ last' = GoalResp("read_goals", u, 0, 200,
                  {GoalPayload(g, goals[g], TeamsOfGoal(g), CategoriesOfGoal(g)) :
                      g \in {h \in DOMAIN goals : goals[h].user_id = u}})
    /\ UNCHANGED <<now, next_id, teamVars, goalVars, fileVars, req>>

\* GET /goals/public: Goal.get_all_public
read_public_goals(u) ==
    /\ last' = GoalResp("read_public_goals", u, 0, 200,
                  {GoalPayload(g, goals[g], TeamsOfGoal(g), CategoriesOfGoal(g)) :
                      g \in {h \in DOMAIN goals : goals[h].is_public}})
    /\ UNCHANGED <<now, next_id, teamVars, goalVars, fileVars, req>>

NextGoalLife ==
    \/ \E u \in Users, p \in BOOLEAN : Free(create_goal(u, "g2", p))
    \/ \E u \in Users : Free(read_goals(u))
    \/ \E u \in Users : Free(read_public_goals(u))
    \/ \E u \in Users, g \in GoalIdInputs : Free(read_goal(u, g))
    \/ \E u \in Users, g \in GoalIdInputs :
          Free(update_goal(u, g, [NoPatch EXCEPT !.status = Some("completed")]))
    \/ \E u \in Users, g \in GoalIdInputs : Free(delete_goal(u, g))

SpecGoalLife == InitGoal /\ [][NextGoalLife]_vars

(***************************************************************************)
(* SpecGoalWrite: the two handlers that write is_public, scope and         *)
(* parent_goal_id of a goal, from the state of SpecGoal.  The parent ids   *)
(* tried are 0 (no parent) and the ids of stored goals.                    *)
(***************************************************************************)
GoalScope == {"private", "public", "team"}

\* GoalCreate.save: "Determine scope based on is_public flag if scope not
\* explicitly set", then the row inserted
GoalCreate_save(body, u) ==
    [title |-> body.title, description |-> NULL, status |-> "pending", target_date |-> 0,
     user_id |-> u, is_public |-> body.is_public,
     scope |-> IF body.is_public /\ body.scope = "private" THEN "public" ELSE body.scope,
     parent_goal_id |-> body.parent_goal_id, display_order |-> 0, template_id |-> 0]

\* POST /goals with is_public, scope and parent_goal_id in the body
create_goal_with(u, body) ==
    /\ next_id.goal <= MaxGoals
    /\ goals' = goals @@ (next_id.goal :> GoalCreate_save(body, u))
    /\ next_id' = [next_id EXCEPT !.goal = @ + 1]
    /\ last' = GoalResp("create_goal", u, next_id.goal, 201,
                        {GoalPayload(next_id.goal, GoalCreate_save(body, u), {}, {})})
    /\ UNCHANGED <<now, teamVars, categories, user_statuses, goal_teams, goal_categories,
                   fileVars, req>>

GoalBodies ==
    [title : {"g2"}, is_public : BOOLEAN, scope : GoalScope,
     parent_goal_id : {0} \cup DOMAIN goals]

WritePatches ==
    {[NoPatch EXCEPT !.is_public = Some(b)] : b \in BOOLEAN}
      \cup {[NoPatch EXCEPT !.scope = Some(sc)] : sc \in GoalScope}
      \cup {[NoPatch EXCEPT !.parent_goal_id = Some(h)] : h \in DOMAIN goals}

NextGoalWrite ==
    \/ \E u \in Users, body \in GoalBodies : Free(create_goal_with(u, body))
    \/ \E u \in Users, g \in GoalIdInputs, p \in WritePatches : Free(update_goal(u, g, p))

SpecGoalWrite == InitGoal /\ [][NextGoalWrite]_vars

(***************************************************************************)
(* SpecOwned: the delete handlers of the rows a user owns (goals,          *)
(* categories, user statuses), from the state of SpecGoal.                 *)
(***************************************************************************)
OwnedResp(op, u, id, code) == [op |-> op, user |-> u, id |-> id, code |-> code, data |-> {}]

\* DELETE /categories/{category_id}; the goal_categories rows of the category
\* go with it ("cascade delete all goal_categories associations")
delete_category(u, c) ==
    /\ IF Category_get_by_id(c, u) = {}
       THEN /\ last' = OwnedResp("delete_category", u, c, 404)
            /\ UNCHANGED <<categories, goal_categories>>
       ELSE /\ categories' = Without(categories, c)
            /\ goal_categories' = {gc \in goal_categories : gc[2] # c}
            /\ last' = OwnedResp("delete_category", u, c, 204)
    /\ UNCHANGED <<now, next_id, teamVars, goals, user_statuses, goal_teams, fileVars, req>>

\* DELETE /statuses/{status_id}: delete where id and user_id, then return None
\* ("Supabase doesn't throw error if nothing deleted, so we can't verify")
delete_user_status(u, status_id) ==
    /\ user_statuses' =
          [i \in {j \in DOMAIN user_statuses :
                     ~(j = status_id /\ user_statuses[j].user_id = u)}
              |-> user_statuses[i]]
    /\ last' = OwnedResp("delete_user_status", u, status_id, 204)
    /\ UNCHANGED <<now, next_id, teamVars, goals, categories, goal_teams, goal_categories,
                   fileVars, req>>

NextOwned ==
    \/ \E u \in Users, g \in GoalIdInputs : Free(delete_goal(u, g))
    \/ \E u \in Users, c \in CategoryIdInputs : Free(delete_category(u, c))
    \/ \E u \in Users, i \in StatusIdInputs : Free(delete_user_status(u, i))

SpecOwned == InitGoal /\ [][NextOwned]_vars

(***************************************************************************)
(* File endpoints, each handler one action.                                *)
(***************************************************************************)
MaxFilesPerGoal == 10        \* "max 10 files per goal"
MaxFileSize == 10485760      \* "10MB = 10485760 bytes"

FilesOfGoal(g) ==
    {[id |-> f, row |-> goal_files[f]] :
        f \in {k \in DOMAIN goal_files : goal_files[k].goal_id = g}}

\* select team_id, team_members!inner(user_id) from goal_teams where goal_id = g
\* and team_members.user_id = u: the teams of the goal that u is a member of
\* (the join read as the inner join on team_id that the query asks for)
team_check(g, u) == {t \in DOMAIN teams : <<g, t>> \in goal_teams /\ MemberRows(t, u) # {}}

\* (mutation: require_write ignored, every call verified as a read)
verify_goal_access_as_read(g, u, require_write) ==
    IF g \notin DOMAIN goals THEN 404
    ELSE IF goals[g].user_id = u THEN 200
    ELSE IF goals[g].is_public THEN 200
    ELSE IF team_check(g, u) # {} THEN 200
    ELSE 403

\* verify_goal_access: 200 stands for "return goal", else the HTTPException raised
verify_goal_access(g, u, require_write) ==
    IF g \notin DOMAIN goals THEN 404
    ELSE IF goals[g].user_id = u THEN 200
    ELSE IF require_write
    THEN (IF team_check(g, u) # {} THEN 200 ELSE 403)
    ELSE IF goals[g].is_public THEN 200
    ELSE IF team_check(g, u) # {} THEN 200
    ELSE 403

\* (mutation: the file count test never fires)
count_exceeded_off(count) == FALSE

\* "if files_count_response.count >= 10"
count_exceeded(count) == count >= MaxFilesPerGoal

FileResp(op, u, g, f, code, data) ==
    [op |-> op, user |-> u, goal |-> g, file |-> f, code |-> code, data |-> data]

\* GET /goals/{goal_id}/files
list_goal_files(u, g) ==
    /\ last' = IF verify_goal_access(g, u, FALSE) # 200
               THEN FileResp("list_goal_files", u, g, 0, verify_goal_access(g, u, FALSE), {})
               ELSE FileResp("list_goal_files", u, g, 0, 200, FilesOfGoal(g))
    /\ UNCHANGED <<now, next_id, teamVars, goalVars, fileVars, req>>

\* POST /goals/{goal_id}/files: the blob is written, then the metadata row
upload_goal_file(u, g, file_size) ==
    /\ IF verify_goal_access(g, u, TRUE) # 200
       THEN /\ last' = FileResp("upload_goal_file", u, g, 0,
                                verify_goal_access(g, u, TRUE), {})
            /\ UNCHANGED <<next_id, goal_files, storage>>
       ELSE IF count_exceeded(Cardinality(FilesOfGoal(g)))
       THEN /\ last' = FileResp("upload_goal_file", u, g, 0, 400, {})
            /\ UNCHANGED <<next_id, goal_files, storage>>
       ELSE IF file_size > MaxFileSize
       THEN /\ last' = FileResp("upload_goal_file", u, g, 0, 413, {})
            /\ UNCHANGED <<next_id, goal_files, storage>>
       ELSE LET id == next_id.file
                unique_filename == <<g, id>>
                row == [goal_id |-> g, file_name |-> "f", file_path |-> unique_filename,
                        file_size |-> file_size, uploaded_by |-> u]
            IN /\ id <= MaxFiles
               /\ storage' = storage \cup {unique_filename}
               /\ goal_files' = goal_files @@ (id :> row)
               /\ next_id' = [next_id EXCEPT !.file = id + 1]
               /\ last' = FileResp("upload_goal_file", u, g, id, 201,
                                   {[id |-> id, row |-> row]})
    /\ UNCHANGED <<now, teamVars, goalVars, req>>

\* GET /goals/{goal_id}/files/{file_id}/download
get_file_download_url(u, g, f) ==
    /\ last' = IF verify_goal_access(g, u, FALSE) # 200
               THEN FileResp("get_file_download_url", u, g, f,
                             verify_goal_access(g, u, FALSE), {})
               ELSE IF ~(f \in DOMAIN goal_files /\ goal_files[f].goal_id = g)
               THEN FileResp("get_file_download_url", u, g, f, 404, {})
               ELSE FileResp("get_file_download_url", u, g, f, 200,
                             {[id |-> f, row |-> goal_files[f]]})
    /\ UNCHANGED <<now, next_id, teamVars, goalVars, fileVars, req>>

\* (mutation: the uploader-or-owner test always passes)
may_delete_any(f, g, u) == TRUE

\* "Check if user is uploader or goal owner"
may_delete(f, g, u) == ~(goal_files[f].uploaded_by # u /\ goals[g].user_id # u)

\* DELETE /goals/{goal_id}/files/{file_id}: the blob is removed, then the row
delete_goal_file(u, g, f) ==
    /\ IF ~(f \in DOMAIN goal_files /\ goal_files[f].goal_id = g /\ g \in DOMAIN goals)
       THEN /\ last' = FileResp("delete_goal_file", u, g, f, 404, {})
            /\ UNCHANGED <<goal_files, storage>>
       ELSE IF ~may_delete(f, g, u)
       THEN /\ last' = FileResp("delete_goal_file", u, g, f, 403, {})
            /\ UNCHANGED <<goal_files, storage>>
       ELSE /\ storage' = storage \ {goal_files[f].file_path}
            /\ goal_files' = Without(goal_files, f)
            /\ last' = FileResp("delete_goal_file", u, g, f, 204, {})
    /\ UNCHANGED <<now, next_id, teamVars, goalVars, req>>

(***************************************************************************)
(* SpecFile: the file endpoints from a state with alice's private goal 1   *)
(* (assigned to team 1, of which bob is a member) and her public goal 2    *)
(* (assigned to no team); carol is in neither.                             *)
(***************************************************************************)
FileIdInputs == 1..MaxFiles
FileSizes == {1, MaxFileSize + 1}

InitFile ==
    /\ now = 0
    /\ next_id = [team |-> 3, member |-> 4, invitation |-> 1, status |-> 1,
                  goal |-> 3, category |-> 1, file |-> 1, key |-> 1]
    /\ teams = (1 :> TeamRow("t1", "alice")) @@ (2 :> TeamRow("t2", "carol"))
    /\ team_members = {MemberRow(1, 1, "alice", OWNER, "alice"),
                       MemberRow(2, 1, "bob", MEMBER, "alice"),
                       MemberRow(3, 2, "carol", OWNER, "carol")}
    /\ team_invitations = <<>>
    /\ team_statuses = <<>>
    /\ notifications = {[user_id |-> "bob", type |-> "team_member_added", related_id |-> 1]}
    /\ goals = (1 :> GoalRow("g1", "alice", FALSE)) @@ (2 :> GoalRow("g2", "alice", TRUE))
    /\ categories = <<>>
    /\ user_statuses = <<>>
    /\ goal_teams = {<<1, 1>>}
    /\ goal_categories = {}
    /\ goal_files = <<>>
    /\ storage = {}
    /\ req = [r \in Reqs |-> IdleReq]
    /\ served = 0
    /\ last = NoResp

NextFile ==
    \/ \E u \in Users, g \in GoalIdInputs : Free(list_goal_files(u, g))
    \/ \E u \in Users, g \in GoalIdInputs, z \in FileSizes : Free(upload_goal_file(u, g, z))
    \/ \E u \in Users, g \in GoalIdInputs, f \in FileIdInputs :
          Free(get_file_download_url(u, g, f))
    \/ \E u \in Users, g \in GoalIdInputs, f \in FileIdInputs :
          Free(delete_goal_file(u, g, f))
    \/ \E u \in Users, g \in GoalIdInputs, t \in TeamIdInputs :
          Free(unassign_goal_from_team(u, g, t))

SpecFile == InitFile /\ [][NextFile]_vars

(***************************************************************************)
(* POST /goals/{goal_id}/files, one action per call to the database or to  *)
(* the blob store, with the calls' failures as inputs.                     *)
(***************************************************************************)
UploadResp(u, g, code, q) ==
    [op |-> "upload_goal_file", user |-> u, goal |-> g, file |-> q.file, code |-> code,
     data |-> {}, key |-> q.key, pre_count |-> q.pre_count, file_size |-> q.file_size,
     stored |-> q.stored, insert_failed |-> q.insert_failed, removed |-> q.removed]

\* the slot of an upload: its storage key, the file count when it was called,
\* and what has happened to it so far
UploadReq(u, g, file_size, pc) ==
    [op |-> "upload_goal_file", user |-> u, goal |-> g, pc |-> pc,
     file_size |-> file_size, key |-> <<>>, file |-> 0,
     pre_count |-> Cardinality(FilesOfGoal(g)),
     stored |-> FALSE, insert_failed |-> FALSE, removed |-> FALSE]

UploadAt(r, pc) == req[r].op = "upload_goal_file" /\ req[r].pc = pc

\* the upload of slot r goes on, its slot now q
UploadGoto(r, q) ==
    /\ last' = UploadResp(q.user, q.goal, 0, q)
    /\ req' = [req EXCEPT ![r] = q]

\* the upload of slot r answers, its slot (now q) is free again
UploadAnswer(r, code, q) ==
    /\ last' = UploadResp(q.user, q.goal, code, q)
    /\ req' = [req EXCEPT ![r] = IdleReq]

\* (mutation: the compensating remove is left out)
storage_remove_noop(key, ok) == storage

\* supabase.storage.from_("goal-files").remove([unique_filename]); ok is
\* whether the call succeeds
storage_remove(key, ok) == IF ok THEN storage \ {key} ELSE storage

\* "Verify write access"
upload_goal_file_verify(r, u, g, file_size) ==
    /\ StartOK(r)
    /\ IF verify_goal_access(g, u, TRUE) # 200
       THEN /\ last' = UploadResp(u, g, verify_goal_access(g, u, TRUE),
                                  UploadReq(u, g, file_size, "idle"))
            /\ UNCHANGED req
       ELSE UploadGoto(r, UploadReq(u, g, file_size, "count"))
    /\ UNCHANGED <<now, next_id, teamVars, goalVars, fileVars>>

\* "Check file count limit", then the size test and the uuid4 of the key
upload_goal_file_count(r) ==
    /\ UploadAt(r, "count")
    /\ IF count_exceeded(Cardinality(FilesOfGoal(req[r].goal)))
       THEN UploadAnswer(r, 400, req[r]) /\ UNCHANGED next_id
       ELSE IF req[r].file_size > MaxFileSize
       THEN UploadAnswer(r, 413, req[r]) /\ UNCHANGED next_id
       ELSE /\ UploadGoto(r, [req[r] EXCEPT !.pc = "upload",
                                            !.key = <<req[r].goal, next_id.key>>])
            /\ next_id' = [next_id EXCEPT !.key = @ + 1]
    /\ UNCHANGED <<now, teamVars, goalVars, fileVars>>

\* "Upload to Supabase Storage"; a failure is caught by except Exception
upload_goal_file_upload(r, ok) ==
    /\ UploadAt(r, "upload")
    /\ IF ok
       THEN /\ storage' = storage \cup {req[r].key}
            /\ UploadGoto(r, [req[r] EXCEPT !.pc = "insert", !.stored = TRUE])
       ELSE /\ UploadGoto(r, [req[r] EXCEPT !.pc = "cleanup"])
            /\ UNCHANGED storage
    /\ UNCHANGED <<now, next_id, teamVars, goalVars, goal_files>>

InsertOutcomes == {"row", "no_row", "raises"}

\* "Create database record": the insert returns the row, returns no row, or
\* raises
upload_goal_file_insert(r, outcome) ==
    /\ UploadAt(r, "insert")
    /\ IF outcome = "row"
       THEN LET id == next_id.file
                row == [goal_id |-> req[r].goal, file_name |-> "f",
                        file_path |-> req[r].key, file_size |-> req[r].file_size,
                        uploaded_by |-> req[r].user]
            IN /\ goal_files' = goal_files @@ (id :> row)
               /\ next_id' = [next_id EXCEPT !.file = id + 1]
               /\ UploadGoto(r, [req[r] EXCEPT !.pc = "sign", !.file = id])
       ELSE /\ UploadGoto(r, [req[r] EXCEPT
                                !.pc = IF outcome = "no_row" THEN "rollback" ELSE "cleanup",
                                !.insert_failed = TRUE])
            /\ UNCHANGED <<goal_files, next_id>>
    /\ UNCHANGED <<now, teamVars, goalVars, storage>>

\* "Rollback: delete uploaded file", then the HTTPException 500, which the
\* handler's except Exception catches as it catches a failure of the remove
upload_goal_file_rollback(r, ok) ==
    /\ UploadAt(r, "rollback")
    /\ storage' = storage_remove(req[r].key, ok)
    /\ UploadGoto(r, [req[r] EXCEPT !.pc = "cleanup", !.removed = @ \/ ok])
    /\ UNCHANGED <<now, next_id, teamVars, goalVars, goal_files>>

\* "Generate signed download URL" and the response record
upload_goal_file_sign(r, ok) ==
    /\ UploadAt(r, "sign")
    /\ IF ok
       THEN UploadAnswer(r, 201, req[r])
       ELSE UploadGoto(r, [req[r] EXCEPT !.pc = "cleanup"])
    /\ UNCHANGED <<now, next_id, teamVars, goalVars, fileVars>>

\* except Exception: "Clean up if anything fails" (try remove, except pass),
\* then 500
upload_goal_file_cleanup(r, ok) ==
    /\ UploadAt(r, "cleanup")
    /\ storage' = storage_remove(req[r].key, ok)
    /\ UploadAnswer(r, 500, [req[r] EXCEPT !.removed = @ \/ ok])
    /\ UNCHANGED <<now, next_id, teamVars, goalVars, goal_files>>

(***************************************************************************)
(* SpecUpload: runs of at most MaxRequests uploads, overlapping, from a    *)
(* state where alice's private goal 1 (assigned to team 1, bob a member)   *)
(* holds one file less than the limit and her public goal 2 holds none.    *)
(* In SpecUploadSeq the uploads run one at a time.                         *)
(***************************************************************************)
SeedFiles == 1..(MaxFilesPerGoal - 1)

InitUpload ==
    /\ now = 0
    /\ next_id = [team |-> 3, member |-> 4, invitation |-> 1, status |-> 1,
                  goal |-> 3, category |-> 1, file |-> MaxFilesPerGoal,
                  key |-> MaxFilesPerGoal]
    /\ teams = (1 :> TeamRow("t1", "alice")) @@ (2 :> TeamRow("t2", "carol"))
    /\ team_members = {MemberRow(1, 1, "alice", OWNER, "alice"),
                       MemberRow(2, 1, "bob", MEMBER, "alice"),
                       MemberRow(3, 2, "carol", OWNER, "carol")}
    /\ team_invitations = <<>>
    /\ team_statuses = <<>>
    /\ notifications = {[user_id |-> "bob", type |-> "team_member_added", related_id |-> 1]}
    /\ goals = (1 :> GoalRow("g1", "alice", FALSE)) @@ (2 :> GoalRow("g2", "alice", TRUE))
    /\ categories = <<>>
    /\ user_statuses = <<>>
    /\ goal_teams = {<<1, 1>>}
    /\ goal_categories = {}
    /\ goal_files = [f \in SeedFiles |->
                        [goal_id |-> 1, file_name |-> "f", file_path |-> <<1, f>>,
                         file_size |-> 1, uploaded_by |-> "alice"]]
    /\ storage = {<<1, f>> : f \in SeedFiles}
    /\ req = [r \in Reqs |-> IdleReq]
    /\ served = 0
    /\ last = NoResp

NextUpload(Slots) ==
    \/ \E r \in Slots, u \in Users, g \in GoalIdInputs, z \in FileSizes :
          Serve(upload_goal_file_verify(r, u, g, z))
    \/ \E r \in Slots : Free(upload_goal_file_count(r))
    \/ \E r \in Slots, ok \in BOOLEAN : Free(upload_goal_file_upload(r, ok))
    \/ \E r \in Slots, o \in InsertOutcomes : Free(upload_goal_file_insert(r, o))
    \/ \E r \in Slots, ok \in BOOLEAN : Free(upload_goal_file_rollback(r, ok))
    \/ \E r \in Slots, ok \in BOOLEAN : Free(upload_goal_file_sign(r, ok))
    \/ \E r \in Slots, ok \in BOOLEAN : Free(upload_goal_file_cleanup(r, ok))

SpecUpload == InitUpload /\ [][NextUpload(Reqs)]_vars

SpecUploadSeq == InitUpload /\ [][NextUpload({1})]_vars

(***************************************************************************)
(* SpecBlob: uploads one at a time and deletes, each with the failures of  *)
(* its calls to the blob store and to the database.                        *)
(***************************************************************************)
\* where the try block of delete_goal_file stops
DeleteOutcomes == {"done", "remove_raises", "delete_raises"}

\* DELETE /goals/{goal_id}/files/{file_id}: "Delete from storage", then
\* "Delete database record"; except Exception: 500
delete_goal_file_try(u, g, f, outcome) ==
    /\ IF ~(f \in DOMAIN goal_files /\ goal_files[f].goal_id = g /\ g \in DOMAIN goals)
       THEN /\ last' = FileResp("delete_goal_file", u, g, f, 404, {})
            /\ UNCHANGED <<goal_files, storage>>
       ELSE IF ~may_delete(f, g, u)
       THEN /\ last' = FileResp("delete_goal_file", u, g, f, 403, {})
            /\ UNCHANGED <<goal_files, storage>>
       ELSE IF outcome = "remove_raises"
       THEN /\ last' = FileResp("delete_goal_file", u, g, f, 500, {})
            /\ UNCHANGED <<goal_files, storage>>
       ELSE IF outcome = "delete_raises"
       THEN /\ storage' = storage \ {goal_files[f].file_path}
            /\ last' = FileResp("delete_goal_file", u, g, f, 500, {})
            /\ UNCHANGED goal_files
       ELSE /\ storage' = storage \ {goal_files[f].file_path}
            /\ goal_files' = Without(goal_files, f)
            /\ last' = FileResp("delete_goal_file", u, g, f, 204, {})
    /\ UNCHANGED <<now, next_id, teamVars, goalVars, req>>

NextBlob ==
    \/ NextUpload({1})
    \/ \E u \in Users, g \in GoalIdInputs, f \in FileIdInputs, o \in DeleteOutcomes :
          Serve(delete_goal_file_try(u, g, f, o))

SpecBlob == InitUpload /\ [][NextBlob]_vars

(***************************************************************************)
(* verify_jwt_token.  A token is what jwt.decode looks at: whether it      *)
(* parses, its algorithm, whether its signature verifies, its exp and aud  *)
(* claims and its sub.  The settings say which of SUPABASE_JWKS_URL and    *)
(* SUPABASE_JWT_SECRET is set.                                             *)
(***************************************************************************)
AuthSettings == [SUPABASE_JWKS_URL : BOOLEAN, SUPABASE_JWT_SECRET : BOOLEAN]

Tokens ==
    [sub : Users, wellformed : BOOLEAN, alg : {"RS256", "HS256"},
     signature_ok : BOOLEAN, exp : 0..MaxTime, aud : {"authenticated", "anon"}]

\* jwt.decode(token, key, algorithms=[alg], audience="authenticated"): the
\* exception it raises, or "none"
jwt_decode(token, alg) ==
    IF ~token.wellformed THEN "DecodeError"
    ELSE IF token.alg # alg THEN "InvalidAlgorithmError"
    ELSE IF ~token.signature_ok THEN "InvalidSignatureError"
    ELSE IF token.exp <= now THEN "ExpiredSignatureError"
    ELSE IF token.aud # "authenticated" THEN "InvalidAudienceError"
    ELSE "none"

\* the body of the try: RS256 with the JWKS client if there is one, else
\* HS256 with the secret, else the HTTPException 500 raised inside the try
verify_jwt_token_try(settings, token) ==
    IF settings.SUPABASE_JWKS_URL THEN jwt_decode(token, "RS256")
    ELSE IF settings.SUPABASE_JWT_SECRET THEN jwt_decode(token, "HS256")
    ELSE "HTTPException"

\* the subclasses of jwt.InvalidTokenError among the exceptions raised
InvalidTokenError ==
    {"DecodeError", "InvalidAlgorithmError", "InvalidSignatureError",
     "ExpiredSignatureError", "InvalidAudienceError"}

\* the except clauses, in their order; every one of them raises a 401
verify_jwt_token_except(e) ==
    IF e = "ExpiredSignatureError"
    THEN [code |-> 401, detail |-> "Token has expired"]
    ELSE IF e \in InvalidTokenError
    THEN [code |-> 401, detail |-> "Invalid authentication token"]
    ELSE [code |-> 401, detail |-> "Could not validate credentials"]

verify_jwt_token(settings, token) ==
    /\ last' = [op |-> "verify_jwt_token", settings |-> settings, token |-> token,
                raised |-> verify_jwt_token_try(settings, token),
                code |-> IF verify_jwt_token_try(settings, token) = "none" THEN 200
                         ELSE verify_jwt_token_except(
                                 verify_jwt_token_try(settings, token)).code,
                data |-> IF verify_jwt_token_try(settings, token) = "none"
                         THEN {token.sub} ELSE {}]
    /\ UNCHANGED <<now, next_id, teamVars, goalVars, fileVars, req>>

NextAuth ==
    \/ Free(Tick)
    \/ \E c \in AuthSettings, t \in Tokens : Free(verify_jwt_token(c, t))

SpecAuth == InitInvite /\ [][NextAuth]_vars

(***************************************************************************)
(* Properties of the invitation lifecycle.                                 *)
(***************************************************************************)
InviteOps == {"accept_invitation", "decline_invitation", "join_via_invite_code"}
Terminal == {ACCEPTED, DECLINED, EXPIRED}

upper(s) == [k \in DOMAIN s |-> IF s[k] >= 97 /\ s[k] <= 122 THEN s[k] - 32 ELSE s[k]]
SameIgnoringCase(a, b) == upper(a) = upper(b)

\* the caller of the step just taken holds a row of the invitation's team
HoldsRow(u, i, role) ==
    \E m \in team_members :
        /\ m.team_id = team_invitations[i].team_id
        /\ m.user_id = u
        /\ m.role = role

\* C1: once an invitation's status is accepted, declined or expired, no step of
\* accept_invitation, decline_invitation or join_via_invite_code (overlapping or
\* not) changes it again.
C1_TerminalIsFinal ==
    [][\A i \in DOMAIN team_invitations :
          team_invitations[i].status \in Terminal
             => team_invitations'[i].status = team_invitations[i].status]_vars

\* C2: accept_invitation and join_via_invite_code, called on an invitation whose
\* expires_at is earlier than now, never add a team_members row and never answer
\* with success, also when the stored status is still pending.
C2_ExpiredIsRejected ==
    [][(/\ last'.op \in {"accept_invitation", "join_via_invite_code"}
        /\ last'.pre_expired)
          => /\ team_members' = team_members
             /\ last'.code = 0 \/ last'.code >= 400]_vars

C2_Witness ==
    /\ last.op = "join_via_invite_code"
    /\ last.pre_pending
    /\ last.pre_expired
    /\ last.code = 400
    /\ team_invitations[last.inv].status = PENDING

\* C3: accept_invitation or decline_invitation, called by the addressee on a
\* pending invitation whose expires_at is in the past, leaves the stored status
\* expired.
C3_ExpiredIsMarkedExpired ==
    (/\ last.op \in {"accept_invitation", "decline_invitation"}
     /\ last.code # 0
     /\ last.pre_pending
     /\ last.pre_expired
     /\ IF last.op = "accept_invitation"
        THEN SameIgnoringCase(team_invitations[last.inv].email, EmailOf(last.user))
        ELSE team_invitations[last.inv].email = EmailOf(last.user))
       => team_invitations[last.inv].status = EXPIRED

\* C4: accept_invitation on a pending invitation goes past the email test exactly
\* when the stored email equals the caller's token email ignoring letter case; on
\* a mismatch it answers 403 in a step that changes neither the invitations nor
\* the membership rows.
C4_EmailMustMatch ==
    [][(last'.op = "accept_invitation" /\ last'.pre_pending)
          => IF SameIgnoringCase(team_invitations[last'.inv].email, EmailOf(last'.user))
             THEN last'.code # 403
             ELSE /\ last'.code = 403
                  /\ team_invitations' = team_invitations
                  /\ team_members' = team_members]_vars

C4_Witness ==
    /\ last.op = "accept_invitation"
    /\ last.pre_pending
    /\ ~last.pre_expired
    /\ last.code = 403
    /\ team_invitations[last.inv].status = PENDING

\* C5: whenever accept_invitation or join_via_invite_code answers with success,
\* the invitation was pending and unexpired when read, the caller holds a
\* team_members row with role member in the invitation's team, and the
\* invitation's status is accepted.
C5_SuccessJoins ==
    (last.op \in {"accept_invitation", "join_via_invite_code"} /\ last.code = 200)
       => /\ last.pre_pending /\ ~last.pre_expired
          /\ HoldsRow(last.user, last.inv, MEMBER)
          /\ team_invitations[last.inv].status = ACCEPTED

C5_Witness ==
    /\ last.op = "accept_invitation"
    /\ last.code = 200
    /\ HoldsRow(last.user, last.inv, MEMBER)

\* C6: when the caller already holds a row of the invitation's team, accepting a
\* pending, unexpired invitation through accept_invitation or through
\* join_via_invite_code leaves the invitation accepted and the caller with one row.
C6_AlreadyMemberStillAccepts ==
    (/\ last.op \in {"accept_invitation", "join_via_invite_code"}
     /\ last.code # 0
     /\ last.pre_pending
     /\ ~last.pre_expired
     /\ last.pre_member
     /\ last.op = "accept_invitation"
           => SameIgnoringCase(team_invitations[last.inv].email, EmailOf(last.user)))
       => /\ team_invitations[last.inv].status = ACCEPTED
          /\ Cardinality(MemberRows(team_invitations[last.inv].team_id, last.user)) = 1

(***************************************************************************)
(* Properties of the team endpoints.                                       *)
(***************************************************************************)
OwnerOps ==
    {"update_team", "delete_team", "add_team_member", "update_team_member_role",
     "send_team_invitation", "create_team_status", "update_team_status",
     "delete_team_status"}

ReadOps ==
    {"read_team", "read_team_members", "read_team_goals", "read_team_invitations",
     "get_team_statuses"}

\* what is stored of team t: its fields, members and roles, invitations, statuses
TeamView(t) ==
    [fields      |-> IF t \in DOMAIN teams THEN {teams[t]} ELSE {},
     members     |-> TeamRows(t),
     invitations |-> InvitationsOf(t),
     statuses    |-> StatusesOf(t)]

IsOwnerOf(u, t) ==
    \E m \in team_members : m.team_id = t /\ m.user_id = u /\ m.role = OWNER

\* C8: a call of an owner-only team operation changes what is stored of a team
\* (fields, members and roles, invitations, statuses) only if the caller holds
\* an owner row of that team at the time of the call.
C8_OnlyOwnersChangeTeam ==
    [][last'.op \in OwnerOps
          => \A t \in TeamIdInputs :
                TeamView(t)' # TeamView(t) => IsOwnerOf(last'.user, t)]_vars

\* C9: a team read answers a caller who holds no team_members row of the team
\* with an error (404, or 403 from get_team_statuses) that carries no data.
C9_ReadsAreForMembers ==
    (last.op \in ReadOps /\ MemberRows(last.team, last.user) = {})
       => /\ last.code = IF last.op = "get_team_statuses" THEN 403 ELSE 404
          /\ last.data = {}

C9_Witness ==
    /\ last.op = "read_team_invitations"
    /\ MemberRows(last.team, last.user) = {}
    /\ InvitationsOf(last.team) # {}
    /\ last.code = 404

(***************************************************************************)
(* Properties of the goal endpoints.                                       *)
(***************************************************************************)
GoalOps ==
    {"read_goal", "update_goal", "delete_goal", "assign_goal_to_categories",
     "assign_goal_to_teams", "unassign_goal_from_team"}

\* what is stored of goal g: its row and its team and category assignments
GoalView(g) ==
    [row        |-> IF g \in DOMAIN goals THEN {goals[g]} ELSE {},
     teams      |-> {gt \in goal_teams : gt[1] = g},
     categories |-> {gc \in goal_categories : gc[1] = g}]

\* C7: a goal operation addressed to a goal of another user answers 404 without
\* data, as it does for a goal id that does not exist, and leaves the goal and
\* its assignments as they were.
C7_OthersGoalIsNotFound ==
    [][\A g \in GoalIdInputs :
          (/\ last'.op \in GoalOps
           /\ last'.goal = g
           /\ g \in DOMAIN goals => goals[g].user_id # last'.user)
             => /\ last'.code = 404
                /\ last'.data = {}
                /\ GoalView(g)' = GoalView(g)]_vars

C7_Witness ==
    /\ last.op = "unassign_goal_from_team"
    /\ last.goal \in DOMAIN goals
    /\ goals[last.goal].user_id # last.user
    /\ MemberRows(1, last.user) # {}
    /\ <<last.goal, 1>> \in goal_teams
    /\ last.code = 404

(***************************************************************************)
(* Properties of the file endpoints.                                       *)
(***************************************************************************)
OnAssignedTeam(u, g) ==
    \E m \in team_members : m.user_id = u /\ <<g, m.team_id>> \in goal_teams

MayWrite(u, g) == goals[g].user_id = u \/ OnAssignedTeam(u, g)

MayRead(u, g) == MayWrite(u, g) \/ goals[g].is_public

\* C10: upload_goal_file goes through only for the goal's owner or a member of a
\* team the goal is assigned to; list_goal_files and get_file_download_url only
\* for those or, when the goal is public, anyone; every other caller of these is
\* answered 403 without data and nothing is stored.
C10_GoalAccessIsVerified ==
    [][\A g \in DOMAIN goals :
          (/\ last'.op \in {"upload_goal_file", "list_goal_files", "get_file_download_url"}
           /\ last'.goal = g
           /\ ~(IF last'.op = "upload_goal_file"
                THEN MayWrite(last'.user, g) ELSE MayRead(last'.user, g)))
             => /\ last'.code = 403
                /\ last'.data = {}
                /\ UNCHANGED <<goal_files, storage>>]_vars

C10_Witness ==
    /\ last.op = "upload_goal_file"
    /\ last.goal \in DOMAIN goals
    /\ goals[last.goal].is_public
    /\ ~MayWrite(last.user, last.goal)
    /\ last.code = 403
    /\ goal_files # <<>>

(***************************************************************************)
(* File deletion.                                                          *)
(***************************************************************************)
\* the file f is stored under goal g and u is its uploader or g's owner
UploaderOrOwner(u, g, f) ==
    goal_files[f].uploaded_by = u \/ goals[g].user_id = u

\* C11: delete_goal_file removes a file's blob and metadata row only when the
\* caller is the file's uploader or the owner of the goal; any other caller
\* of an existing file of that goal gets 403 and both the blob and the row
\* remain.
C11_DeleteByUploaderOrOwner ==
    [][last'.op = "delete_goal_file"
          => /\ (goal_files' # goal_files \/ storage' # storage)
                  => /\ last'.file \in DOMAIN goal_files
                     /\ goal_files[last'.file].goal_id = last'.goal
                     /\ UploaderOrOwner(last'.user, last'.goal, last'.file)
             /\ \A g \in DOMAIN goals, f \in DOMAIN goal_files :
                  (/\ last'.goal = g /\ last'.file = f
                   /\ goal_files[f].goal_id = g
                   /\ ~UploaderOrOwner(last'.user, g, f))
                     => /\ last'.code = 403
                        /\ goal_files' = goal_files
                        /\ storage' = storage]_vars

\* a caller who is neither uploader nor owner was refused, file and blob remain
C11_Witness ==
    /\ last.op = "delete_goal_file" /\ last.code = 403
    /\ last.file \in DOMAIN goal_files
    /\ goal_files[last.file].goal_id = last.goal
    /\ goal_files[last.file].uploaded_by # last.user
    /\ goals[last.goal].user_id # last.user
    /\ goal_files[last.file].file_path \in storage

(***************************************************************************)
(* Removing a member.                                                      *)
(***************************************************************************)
\* C12: remove_team_member deletes the target's membership row only when the
\* caller is an owner of the team or the target is the caller; a non-owner
\* member who targets another user gets 403 and a caller who is no member of
\* the team gets 404, and in both cases the membership is unchanged.
C12_RemoveByOwnerOrSelf ==
    [][last'.op = "remove_team_member"
          => LET u == last'.user
                 t == last'.team
                 target == last'.member_user_id
             IN /\ MemberRows(t, u) = {}
                     => last'.code = 404 /\ team_members' = team_members
                /\ (MemberRows(t, u) # {} /\ ~IsOwnerOf(u, t) /\ target # u)
                     => last'.code = 403 /\ team_members' = team_members
                /\ team_members' # team_members
                     => /\ IsOwnerOf(u, t) \/ target = u
                        /\ team_members' = team_members \ MemberRows(t, target)]_vars

\* a member who is no owner asked to remove another member and was refused
C12_Witness ==
    /\ last.op = "remove_team_member" /\ last.code = 403
    /\ MemberRows(last.team, last.user) # {}
    /\ ~IsOwnerOf(last.user, last.team)
    /\ MemberRows(last.team, last.member_user_id) # {}
    /\ last.member_user_id # last.user

(***************************************************************************)
(* Team nesting.                                                           *)
(***************************************************************************)
\* C13: create_team under a parent at nesting_level 2 answers 400 and creates
\* no team; under a parent at level 0 or 1 of which the caller is a member it
\* succeeds and the child's nesting_level is the parent's plus 1; so every
\* team's nesting_level is 0, 1 or 2.
C13_NestingIsCapped ==
    [][/\ \A p \in DOMAIN teams :
            (last'.op = "create_team" /\ last'.parent_team_id = p
             /\ MemberRows(p, last'.user) # {})
               => IF teams[p].nesting_level = 2
                  THEN last'.code = 400 /\ teams' = teams
                  ELSE /\ last'.code = 201
                       /\ DOMAIN teams' = DOMAIN teams \cup {last'.team}
                       /\ last'.team \notin DOMAIN teams
                       /\ teams'[last'.team].parent_team_id = p
                       /\ teams'[last'.team].nesting_level = teams[p].nesting_level + 1
       /\ \A t \in DOMAIN teams' : teams'[t].nesting_level \in {0, 1, 2}]_vars

\* a team under a parent at level 2 was refused
C13_Witness ==
    /\ last.op = "create_team" /\ last.code = 400
    /\ last.parent_team_id \in DOMAIN teams
    /\ teams[last.parent_team_id].nesting_level = 2
    /\ MemberRows(last.parent_team_id, last.user) # {}
    /\ \E t \in DOMAIN teams : teams[t].nesting_level = 1

(***************************************************************************)
(* Properties of an upload.                                                *)
(***************************************************************************)
\* C14: with no uploads overlapping, an upload to a goal that has 10 files
\* is rejected with 400 and writes neither a blob nor a metadata row, and an
\* upload to a goal that has 9 files can succeed and give 10 (the witness).
C14_EleventhIsRejected ==
    (/\ last.op = "upload_goal_file"
     /\ last.code \notin {0, 403, 404}
     /\ last.pre_count >= MaxFilesPerGoal)
       => /\ last.code = 400
          /\ last.key = <<>> /\ last.file = 0 /\ ~last.stored
          /\ Cardinality(FilesOfGoal(last.goal)) = last.pre_count

\* the tenth file went in by an upload, and the next upload was refused
C14_Witness ==
    /\ last.op = "upload_goal_file" /\ last.code = 400
    /\ last.pre_count = MaxFilesPerGoal
    /\ \E f \in DOMAIN goal_files \ SeedFiles :
          /\ goal_files[f].goal_id = last.goal
          /\ goal_files[f].file_path \in storage
    /\ Cardinality(FilesOfGoal(last.goal)) = MaxFilesPerGoal

\* C15: in every reachable state, overlapping uploads included, no goal has
\* more than 10 goal_files rows.
C15_AtMostTenFiles ==
    \A g \in DOMAIN goals : Cardinality(FilesOfGoal(g)) <= MaxFilesPerGoal

\* C16: when the blob was written and the metadata insert then failed, the
\* handler answers 500, and no blob is left under the upload's key if a
\* remove call of the handler succeeded.
C16_FailedInsertRemovesBlob ==
    (/\ last.op = "upload_goal_file"
     /\ last.code # 0
     /\ last.insert_failed)
       => /\ last.code = 500
          /\ last.stored
          /\ last.removed => last.key \notin storage

\* the insert failed with the blob written, and the blob is gone
C16_Witness ==
    /\ last.op = "upload_goal_file" /\ last.code = 500
    /\ last.insert_failed /\ last.stored /\ last.removed
    /\ last.key \notin storage

(***************************************************************************)
(* Properties of update_goal.                                              *)
(***************************************************************************)
\* what a patch says of field f of a stored row: the new value, or the old
Patched(row, patch, f) ==
    IF f \in DOMAIN patch /\ patch[f] # {}
    THEN CHOOSE v \in patch[f] : TRUE
    ELSE row[f]

\* C17: update_goal by the goal's owner overwrites exactly the fields that are
\* non-null in the patch and leaves every other stored field, and every other
\* goal, unchanged; a patch with no field set writes nothing and returns the
\* goal as stored.
C17_UpdateWritesPatchOnly ==
    [][\A g \in DOMAIN goals :
          (last'.op = "update_goal" /\ last'.goal = g /\ goals[g].user_id = last'.user)
            => /\ last'.code = 200
               /\ DOMAIN goals' = DOMAIN goals
               /\ \A h \in DOMAIN goals \ {g} : goals'[h] = goals[h]
               /\ \A f \in DOMAIN goals[g] : goals'[g][f] = Patched(goals[g], last'.patch, f)
               /\ \A d \in last'.data : d.id = g /\ d.row = goals'[g]
               /\ last'.data # {}
               /\ (\A f \in DOMAIN last'.patch : last'.patch[f] = {}) => goals' = goals]_vars

\* {status: completed} went into a goal whose title stayed
C17_Witness ==
    /\ last.op = "update_goal" /\ last.code = 200
    /\ last.patch.status = {"completed"} /\ last.patch.title = {}
    /\ goals[last.goal].status = "completed"
    /\ goals[last.goal].title = "g9"

(***************************************************************************)
(* Properties of delete_goal.                                              *)
(***************************************************************************)
\* goal id g was given to a goal and that goal is deleted
Gone(g) == g < next_id.goal /\ g \notin DOMAIN goals

\* C18: a delete_goal that answers 204 leaves the goal deleted, and from then
\* on the goal stays deleted: read_goal, update_goal and delete_goal for its id
\* answer 404 to every caller and read_goals and read_public_goals do not
\* list it.
C18_DeletedStaysGone ==
    [][\A g \in GoalIdInputs :
          /\ (last'.op = "delete_goal" /\ last'.code = 204 /\ last'.goal = g)
                => /\ g \in DOMAIN goals
                   /\ goals[g].user_id = last'.user
                   /\ Gone(g)'
          /\ Gone(g)
                => /\ Gone(g)'
                   /\ (last'.op \in {"read_goal", "update_goal", "delete_goal"}
                          /\ last'.goal = g)
                         => last'.code = 404
                   /\ last'.op \in {"read_goals", "read_public_goals"}
                         => \A d \in last'.data : d.id # g]_vars

\* a public goal was deleted, another goal was created after it, and the
\* public list was read
C18_Witness ==
    /\ last.op = "read_public_goals"
    /\ Gone(1)
    /\ \E g \in DOMAIN goals : g > 1 /\ goals[g].is_public
    /\ last.data # {}

(***************************************************************************)
(* Properties of verify_jwt_token.                                         *)
(***************************************************************************)
\* C19: verify_jwt_token answers 401 for an expired token, 401 for a
\* malformed token or an invalid signature, and 500 when neither a JWKS URL
\* nor a shared secret is configured.
C19_AuthErrors ==
    last.op = "verify_jwt_token"
      => IF ~last.settings.SUPABASE_JWKS_URL /\ ~last.settings.SUPABASE_JWT_SECRET
         THEN last.code = 500
         ELSE /\ (~last.token.wellformed \/ ~last.token.signature_ok) => last.code = 401
              /\ last.token.exp <= now => last.code = 401

(***************************************************************************)
(* Properties of team membership.                                          *)
(***************************************************************************)
JoinOps == {"add_team_member", "accept_invitation", "join_via_invite_code"}

OwnRow(tbl, id, u) == id \in DOMAIN tbl /\ tbl[id].user_id = u

\* C21: for goals, categories and user statuses, a delete request for an id
\* that does not exist or belongs to another user answers 404 and deletes
\* nothing.
C21_DeleteOfOthersIsNotFound ==
    [][/\ (last'.op = "delete_goal" /\ ~OwnRow(goals, last'.goal, last'.user))
            => last'.code = 404 /\ goals' = goals
       /\ (last'.op = "delete_category" /\ ~OwnRow(categories, last'.id, last'.user))
            => last'.code = 404 /\ categories' = categories
       /\ (last'.op = "delete_user_status" /\ ~OwnRow(user_statuses, last'.id, last'.user))
            => last'.code = 404 /\ user_statuses' = user_statuses]_vars

\* the read paths of a goal's payload
GoalReadOps == {"read_goals", "read_goal", "read_public_goals"}

\* C22: the payload of a goal carries the same teams list and the same
\* categories list on the list path, the get-by-id path and the public list
\* path: the joined teams and categories the goal is assigned to.
C22_SamePayloadOnEveryPath ==
    (last.op \in GoalReadOps /\ last.code = 200)
        => \A p \in last.data : /\ p.teams = TeamsOfGoal(p.id)
                                /\ p.categories = CategoriesOfGoal(p.id)

(***************************************************************************)
(* Properties of the goal tree and of the public flag.                     *)
(***************************************************************************)
ParentOf(g) == IF g \in DOMAIN goals THEN goals[g].parent_goal_id ELSE 0

\* the goals met by following parent_goal_id from g for at most n steps
RECURSIVE Ancestors(_, _)
Ancestors(g, n) ==
    IF n = 0 \/ ParentOf(g) = 0 THEN {}
    ELSE {ParentOf(g)} \cup Ancestors(ParentOf(g), n - 1)

\* C23: after any sequence of create_goal and update_goal calls, following
\* parent_goal_id from a goal never leads back to that goal.
C23_NoParentCycle ==
    \A g \in DOMAIN goals : g \notin Ancestors(g, Cardinality(DOMAIN goals))

\* C30: after any sequence of create_goal and update_goal calls, every stored
\* goal with is_public = true has a scope other than private.
C30_PublicIsNotPrivate ==
    \A g \in DOMAIN goals : goals[g].is_public => goals[g].scope # "private"

(***************************************************************************)
(* Properties of a goal's assignments.                                     *)
(***************************************************************************)
\* C24: a successful assign_goal_to_categories leaves the goal with exactly the
\* categories given, whatever it had before; when the caller does not own the
\* goal or one of the categories listed, the answer is 404 and the
\* assignments are as they were.
C24_CategoriesAreReplaced ==
    [][\A g \in GoalIdInputs :
          (last'.op = "assign_goal_to_categories" /\ last'.goal = g)
             => /\ last'.code \in {201, 404}
                /\ last'.code = 201 => CategoriesOfGoal(g)' = last'.ids
                /\ (\/ ~OwnRow(goals, g, last'.user)
                    \/ \E c \in last'.ids : ~OwnRow(categories, c, last'.user))
                      => last'.code = 404 /\ goal_categories' = goal_categories]_vars

C24_Witness ==
    /\ last.op = "assign_goal_to_categories"
    /\ last.code = 201
    /\ last.goal = 1
    /\ last.ids = {2}
    /\ CategoriesOfGoal(1) = {2}

\* C25: assign_goal_to_teams adds rows only when the caller owns the goal and
\* belongs to every team listed; with one team failing the answer is 404 and
\* no row is added for any team; on success every team listed holds the goal,
\* the rows there before are kept, and read_team_goals of each team listed
\* returns the goal.
C25_TeamsAreAddedTogether ==
    [][\A g \in GoalIdInputs :
          (last'.op = "assign_goal_to_teams" /\ last'.goal = g)
             => /\ last'.code \in {201, 404}
                /\ (\/ ~OwnRow(goals, g, last'.user)
                    \/ \E t \in last'.ids : MemberRows(t, last'.user) = {})
                      => last'.code = 404 /\ goal_teams' = goal_teams
                /\ last'.code = 201
                      => /\ goal_teams' = goal_teams \cup {<<g, t>> : t \in last'.ids}
                         /\ \A t \in last'.ids :
                               \E p \in GoalsOfTeam(t)' : p.id = g]_vars

C25_Witness ==
    /\ last.op = "read_team_goals"
    /\ last.code = 200
    /\ last.team = 2
    /\ \E p \in last.data : p.id = 1

(***************************************************************************)
(* Properties of a team's parent.                                          *)
(***************************************************************************)
\* C26: create_team with a parent_team_id that names no team, or a team the
\* caller is not a member of, answers 404 and creates no team.
C26_ParentMustBeVisible ==
    [][(/\ last'.op = "create_team"
        /\ last'.parent_team_id # 0
        /\ MemberRows(last'.parent_team_id, last'.user) = {})
          => /\ last'.code = 404
             /\ teams' = teams
             /\ team_members' = team_members]_vars

(***************************************************************************)
(* Properties of the rows an invitation brings.                            *)
(***************************************************************************)
\* the members of team t other than its creator: in the invitation lifecycle
\* each of them came in through accept_invitation or join_via_invite_code
Joined(t) == {m \in team_members : m.team_id = t /\ m.user_id # teams[t].created_by}

\* C27: each invitation yields at most one new team member row, also when
\* accept and join requests for it overlap: a team never has more members
\* that came in by invitation than it has invitations.
C27_OneRowPerInvitation ==
    \A t \in DOMAIN teams :
        Cardinality(Joined(t)) <= Cardinality(InvitationsOf(t))

(***************************************************************************)
(* Properties of a team's owners.                                          *)
(***************************************************************************)
\* C28: under update_team_member_role and remove_team_member, every team
\* that has a member has an owner among its members.
C28_TeamKeepsAnOwner ==
    \A t \in DOMAIN teams :
        (\E m \in team_members : m.team_id = t)
            => \E m \in team_members : m.team_id = t /\ m.role = OWNER

(***************************************************************************)
(* Properties of the rows and the blobs.                                   *)
(***************************************************************************)
\* C29: every goal_files row refers to a blob that is in storage, whatever
\* fails inside an upload after its insert or inside a delete between its two
\* steps.
C29_EveryRowHasItsBlob ==
    \A f \in DOMAIN goal_files : goal_files[f].file_path \in storage

====
